---- MODULE Spec2Model ----
(***************************************************************************)
(* no-unused-vars: the rule's classification, ignore-pattern resolution    *)
(* and reporting, run by the RuleTester over the cases of                  *)
(* tests/lib/rules/no-unused-vars.js (src/unnamed/part_001).               *)
(*                                                                         *)
(* A case is the scope graph the parser hands to the rule: an ordered list *)
(* of bindings, each with its ordered references, plus the rule options    *)
(* and, for a case of the test file, the errors the test expects.          *)
(*                                                                         *)
(* After it: the rules linebreak-style and lines-around-comment            *)
(* (src/unnamed/part_000), each run over generated source texts, and the   *)
(* script src/tools/check-emfile-handling.js.  Each program has its own    *)
(* specification, in which the other programs stand idle.                  *)
(***************************************************************************)
EXTENDS Integers, Sequences, FiniteSets

VARIABLES case, pc, idx, unusedVars, reports, suggestions, locations, asserted,
          linebreak, around, emfile

(* The run of no-unused-vars. *)
ruleVars == <<case, pc, idx, unusedVars, reports, suggestions, locations,
              asserted>>

(* The runs of linebreak-style, of lines-around-comment and of the script. *)
otherVars == <<linebreak, around, emfile>>

vars == <<ruleVars, otherVars>>

(* A program that is not run. *)
Idle == [pc |-> "idle"]

----------------------------------------------------------------------------
(* Identifier names are sequences of one-character strings so that an      *)
(* ignore pattern can be matched against them.                             *)

Chars == {"a", "b", "c", "d", "e", "f", "g", "i", "j", "l", "m", "n", "o", "p", "r",
          "s", "t", "u", "x", "y", "z", "E", "F", "I", "U", "_", "1"}

(* A regular expression of the shape the tests use: an optional ^ anchor   *)
(* followed by a run of character classes.  src is its source text.        *)
NoPattern == [set |-> FALSE, src |-> "", anchored |-> FALSE, cls |-> <<>>]

Pattern(src, anchored, cls) ==
    [set |-> TRUE, src |-> src, anchored |-> anchored, cls |-> cls]

(* RegExp.prototype.test: some position of the name (the first one only    *)
(* when anchored) starts a run of characters matching the classes.         *)
RegexTest(p, name) ==
    \E s \in 1..(Len(name) - Len(p.cls) + 1) :
        /\ p.anchored => s = 1
        /\ \A k \in 1..Len(p.cls) : name[s + k - 1] \in p.cls[k]

(* config.xxxIgnorePattern && config.xxxIgnorePattern.test(name) *)
Matches(p, name) == p.set /\ RegexTest(p, name)

P_underscore == Pattern("^_", TRUE, <<{"_"}>>)
P_c          == Pattern("c", FALSE, <<{"c"}>>)
P_err        == Pattern("^err", TRUE, <<{"e"}, {"r"}, {"r"}>>)
P_er         == Pattern("^er", TRUE, <<{"e"}, {"r"}>>)
P_any        == Pattern("^.", TRUE, <<Chars>>)
P_ignore     == Pattern("^ignore", TRUE,
                        <<{"i"}, {"g"}, {"n"}, {"o"}, {"r"}, {"e"}>>)
P_ignored    == Pattern("[iI]gnored", FALSE,
                        <<{"i", "I"}, {"g"}, {"n"}, {"o"}, {"r"}, {"e"}, {"d"}>>)
P_Foo        == Pattern("^Foo", TRUE, <<{"F"}, {"o"}, {"o"}>>)
P_message    == Pattern("message", FALSE,
                        <<{"m"}, {"e"}, {"s"}, {"s"}, {"a"}, {"g"}, {"e"}>>)

----------------------------------------------------------------------------
(* Rule options after normalisation.                                       *)

DefaultConfig ==
    [vars |-> "all", args |-> "after-used", caughtErrors |-> "all",
     varsIgnorePattern |-> NoPattern, argsIgnorePattern |-> NoPattern,
     caughtErrorsIgnorePattern |-> NoPattern,
     destructuredArrayIgnorePattern |-> NoPattern,
     ignoreRestSiblings |-> FALSE, ignoreClassWithStaticInitBlock |-> FALSE,
     ignoreUsingDeclarations |-> FALSE, reportUsedIgnorePattern |-> FALSE]

----------------------------------------------------------------------------
(* References.  A reference carries what the scope graph and the AST give  *)
(* the classifier about one occurrence of the binding's name:              *)
(*   read, write  its access kind (both for `a += 1`, `a++`)               *)
(*   init         it is the write of the declaration's initializer         *)
(*   parent       what the identifier is in its parent node:               *)
(*                "assign"  left side of `=` or of a compound assignment   *)
(*                "logical" left side of `||=`, `&&=`, `??=`               *)
(*                "update"  operand of `++` / `--`                         *)
(*                "array"   element of an array pattern being assigned     *)
(*                "other"   anything else                                  *)
(*   ctx          where that assignment/update expression stands           *)
(*   rhs          identity of the assignment's right side (0: none)        *)
(*   within       the right sides the identifier lies inside               *)
(*   storable     it lies in a function of that right side that can be     *)
(*                stored and called later                                  *)
(*   otherScope   it comes from a nested function (another variable scope) *)
(*   inLoop       it lies in a loop                                        *)
(*   selfRef      it lies inside a function the binding itself names       *)
(*   forBody      for the variable of a for-in/for-of head, the shape of   *)
(*                the loop body ("none" when it is no such reference)      *)
(*   at           where its identifier starts in the source text (0 when   *)
(*                the case does not describe positions)                    *)

(* The ancestors of an expression: seq lists, innermost first, whether it  *)
(* is the last or a non-last element of each enclosing sequence            *)
(* expression; stmt tells whether the outermost one is an expression       *)
(* statement (otherwise its value is consumed).                            *)
Ctx(seq, stmt) == [seq |-> seq, stmt |-> stmt]

Stmt     == Ctx(<<>>, TRUE)
Consumed == Ctx(<<>>, FALSE)

BaseRef ==
    [read |-> FALSE, write |-> FALSE, init |-> FALSE, parent |-> "other",
     ctx |-> Consumed, rhs |-> 0, within |-> {}, storable |-> FALSE,
     otherScope |-> FALSE, inLoop |-> FALSE, selfRef |-> FALSE,
     forBody |-> "none", at |-> 0]

(* `var a = 0`: the initializer's write. *)
InitW == [BaseRef EXCEPT !.write = TRUE, !.init = TRUE]
(* `alert(a)`: a plain read. *)
Read == [BaseRef EXCEPT !.read = TRUE]
(* `function() { alert(a) }`: a read from a nested function. *)
ReadNested == [BaseRef EXCEPT !.read = TRUE, !.otherScope = TRUE]
(* `function a() { a() }`: a read from inside the binding's own function. *)
SelfCall == [BaseRef EXCEPT !.read = TRUE, !.otherScope = TRUE, !.selfRef = TRUE]
(* `a = <rhs>` standing in ctx. *)
AssignW(rhs, ctx) ==
    [BaseRef EXCEPT !.write = TRUE, !.parent = "assign", !.rhs = rhs, !.ctx = ctx]
(* `a += <rhs>` standing in ctx. *)
CompoundRW(rhs, ctx) ==
    [BaseRef EXCEPT !.read = TRUE, !.write = TRUE, !.parent = "assign",
                    !.rhs = rhs, !.ctx = ctx]
(* `a ||= <rhs>` standing in ctx. *)
LogicalRW(rhs, ctx) ==
    [BaseRef EXCEPT !.read = TRUE, !.write = TRUE, !.parent = "logical",
                    !.rhs = rhs, !.ctx = ctx]
(* `a++` standing in ctx. *)
UpdateRW(ctx) ==
    [BaseRef EXCEPT !.read = TRUE, !.write = TRUE, !.parent = "update", !.ctx = ctx]
(* a read of `a` inside the right side rhs of an assignment. *)
ReadIn(rhs) == [BaseRef EXCEPT !.read = TRUE, !.within = {rhs}]
(* `[a] = arr`: a write through an array pattern. *)
ArrayW == [BaseRef EXCEPT !.write = TRUE, !.parent = "array"]
(* `for (a in obj) <body>`: the write of a for-in/for-of head. *)
ForW(body) == [BaseRef EXCEPT !.write = TRUE, !.forBody = body]
(* `for (var a in obj) <body>`: the same write, the head declaring a. *)
ForDeclW(body) == [ForW(body) EXCEPT !.init = TRUE]

(* `({ a } = obj)`, `({ ...a } = obj)`: a write through an object pattern. *)
PatternW == [BaseRef EXCEPT !.write = TRUE]

isReadRef(ref) == ref.read

(* The expression's value is discarded: it is an expression statement, or  *)
(* a non-last element of a sequence, or the last element of a sequence     *)
(* that is itself unused.                                                  *)
RECURSIVE isUnusedSeq(_, _)
isUnusedSeq(seq, stmt) ==
    IF seq = <<>> THEN stmt
    ELSE IF Head(seq) = "nonlast" THEN TRUE
    ELSE isUnusedSeq(Tail(seq), stmt)

isUnusedExpression(ctx) == isUnusedSeq(ctx.seq, ctx.stmt)

(* The reference is the variable of a for-in/for-of loop whose body is     *)
(* `return` or a block starting with `return`.                             *)
isForInOfRef(ref) == ref.forBody \in {"return", "blockReturn"}

(* The right side to remember after this reference: the previous one while *)
(* still inside it, else the right side of `a = ...` when the assignment's *)
(* value is unused and the write cannot be read later (same variable scope *)
(* and not in a loop).                                                     *)
getRhsNode(ref, prevRhsNode) ==
    LET canBeUsedLater == ref.otherScope \/ ref.inLoop
    IN  IF prevRhsNode # 0 /\ prevRhsNode \in ref.within THEN prevRhsNode
        ELSE IF /\ ref.parent \in {"assign", "logical"}
                /\ isUnusedExpression(ref.ctx)
                /\ ~canBeUsedLater
             THEN ref.rhs
             ELSE 0

(* The read only serves a write to the same binding: `a += 1`, `a++` whose *)
(* value is unused, or a read in the remembered right side that is not in  *)
(* a storable function.                                                    *)
isReadForItself(ref, rhsNode) ==
    /\ ref.read
    /\ \/ ref.parent = "assign" /\ isUnusedExpression(ref.ctx)
       \/ ref.parent = "update" /\ isUnusedExpression(ref.ctx)
       \/ rhsNode # 0 /\ rhsNode \in ref.within /\ ~ref.storable

----------------------------------------------------------------------------
(* Bindings.                                                               *)
(*   name            the identifier, as a sequence of characters           *)
(*   defType         type of the first definition: "Variable", "Parameter",*)
(*                   "CatchClause", "FunctionName", "ClassName",           *)
(*                   "ImportBinding"; "none" for a name that only a        *)
(*                   /*global*/ comment declares                           *)
(*   scopeType       type of the declaring scope ("global", "module",      *)
(*                   "function", "block", "catch", ...)                    *)
(*   arrayElem       the defining identifier is an element of an array     *)
(*                   pattern                                               *)
(*   exportDecl      the definition is part of an `export` declaration     *)
(*   eslintExported  an /*exported*/ comment names it                      *)
(*   eslintUsed      marked used (markVariableAsUsed, /*exported*/)        *)
(*   fn              for a parameter, the identity of its function         *)
(*   directParam     the identifier is itself an element of the            *)
(*                   function's parameter list                             *)
(*   setter          it is the parameter of a setter                       *)
(*   hasStaticBlock  for a class, its body has a static block              *)
(*   restSibling     a property of an object pattern that has a rest       *)
(*                   element                                               *)
(*   fnDef           the binding names a function: a function declaration, *)
(*                   or a variable initialised with a function             *)
(*   using           declared by `using` / `await using`                   *)
(*   refs            its references, in source order                       *)
(*   at              where its declaring identifier starts in the source   *)
(*                   text (0 when the case does not describe positions)    *)

BaseBinding ==
    [name |-> <<>>, defType |-> "Variable", scopeType |-> "global",
     arrayElem |-> FALSE, exportDecl |-> FALSE, eslintExported |-> FALSE,
     eslintUsed |-> FALSE, fn |-> 0, directParam |-> FALSE, setter |-> FALSE,
     hasStaticBlock |-> FALSE, restSibling |-> FALSE, fnDef |-> FALSE,
     using |-> FALSE, refs |-> <<>>, at |-> 0]

(* `var name ...` at the top level of a script. *)
Var(name, refs) == [BaseBinding EXCEPT !.name = name, !.refs = refs]
(* `var name ...` inside a function. *)
LocalVar(name, refs) ==
    [BaseBinding EXCEPT !.name = name, !.refs = refs, !.scopeType = "function"]
(* parameter `name` of function fn. *)
Param(name, fn, refs) ==
    [BaseBinding EXCEPT !.name = name, !.refs = refs, !.defType = "Parameter",
                        !.scopeType = "function", !.fn = fn, !.directParam = TRUE]
(* A name that only a /*global*/ comment declares. *)
DeclaredGlobal(name, refs) ==
    [BaseBinding EXCEPT !.name = name, !.refs = refs, !.defType = "none"]
(* `catch (name)`. *)
CatchParam(name, refs) ==
    [BaseBinding EXCEPT !.name = name, !.refs = refs, !.defType = "CatchClause",
                        !.scopeType = "catch"]
(* `function name() {}` at the top level of a script. *)
Func(name, refs) ==
    [BaseBinding EXCEPT !.name = name, !.refs = refs, !.defType = "FunctionName",
                        !.fnDef = TRUE]
(* `class name {}` at the top level of a script. *)
Class(name, refs) ==
    [BaseBinding EXCEPT !.name = name, !.refs = refs, !.defType = "ClassName"]

(* Whether some reference satisfies the classifier's test, scanning from   *)
(* reference k with the right side remembered so far.                      *)
RECURSIVE someUsedRef(_, _, _)
someUsedRef(b, k, rhsNode) ==
    IF k > Len(b.refs) THEN FALSE
    ELSE LET ref == b.refs[k]
             forItself == isReadForItself(ref, rhsNode)
         IN  \/ isForInOfRef(ref)
             \/ /\ isReadRef(ref)
                /\ ~forItself
                /\ ~(b.fnDef /\ ref.selfRef)
             \/ someUsedRef(b, k + 1, getRhsNode(ref, rhsNode))

isUsedVariable(b) == b.eslintUsed \/ someUsedRef(b, 1, 0)

isExported(b) == b.eslintExported \/ b.exportDecl

hasRestSpreadSibling(b, config) == config.ignoreRestSiblings /\ b.restSibling

(* The classifier's verdict for a binding. *)
Verdict(b) ==
    IF isUsedVariable(b) \/ isExported(b) THEN "used"
    ELSE IF \E k \in 1..Len(b.refs) : b.refs[k].write THEN "unused-assigned"
    ELSE "unused-defined"

(* With args "after-used": no parameter after this one, in the same        *)
(* function, has a reference or is marked used.                            *)
isAfterLastUsedArg(bindings, i) ==
    ~\E j \in (i + 1)..Len(bindings) :
        /\ bindings[j].defType = "Parameter"
        /\ bindings[j].fn = bindings[i].fn
        /\ (Len(bindings[j].refs) > 0 \/ bindings[j].eslintUsed)

----------------------------------------------------------------------------
(* Messages.                                                               *)

PatternText(p) == "/" \o p.src \o "/u"

(* Data of an "unusedVar" message for a binding without any write.         *)
getDefinedMessageData(b, config) ==
    LET desc == IF b.defType = "CatchClause" THEN "caught errors"
                ELSE IF b.defType = "Parameter" THEN "args" ELSE "vars"
        pattern == IF b.defType = "CatchClause" THEN config.caughtErrorsIgnorePattern
                   ELSE IF b.defType = "Parameter" THEN config.argsIgnorePattern
                   ELSE config.varsIgnorePattern
    IN  [varName |-> b.name, action |-> "defined",
         additional |-> IF b.defType # "none" /\ pattern.set
                        THEN ". Allowed unused " \o desc \o " must match "
                             \o PatternText(pattern)
                        ELSE ""]

(* Data of an "unusedVar" message for a binding with a write.              *)
getAssignedMessageData(b, config) ==
    LET array == b.arrayElem /\ config.destructuredArrayIgnorePattern.set
        desc == IF array THEN "elements of array destructuring" ELSE "vars"
        pattern == IF array THEN config.destructuredArrayIgnorePattern
                   ELSE config.varsIgnorePattern
    IN  [varName |-> b.name, action |-> "assigned a value",
         additional |-> IF b.defType # "none" /\ pattern.set
                        THEN ". Allowed unused " \o desc \o " must match "
                             \o PatternText(pattern)
                        ELSE ""]

(* Data of a "usedIgnoredVar" message; kind names the pattern that matched.*)
getUsedIgnoredMessageData(b, config, kind) ==
    LET desc == CASE kind = "array-destructure" -> "elements of array destructuring"
                  [] kind = "catch-clause" -> "caught errors"
                  [] kind = "parameter" -> "args"
                  [] OTHER -> "vars"
        pattern == CASE kind = "array-destructure" -> config.destructuredArrayIgnorePattern
                     [] kind = "catch-clause" -> config.caughtErrorsIgnorePattern
                     [] kind = "parameter" -> config.argsIgnorePattern
                     [] OTHER -> config.varsIgnorePattern
    IN  [varName |-> b.name,
         additional |-> IF pattern.set
                        THEN ". Used " \o desc \o " must not match "
                             \o PatternText(pattern)
                        ELSE ""]

(* context.report for an unused binding. *)
UnusedReport(b, config) ==
    [messageId |-> "unusedVar",
     data |-> IF \E k \in 1..Len(b.refs) : b.refs[k].write
              THEN getAssignedMessageData(b, config)
              ELSE getDefinedMessageData(b, config)]

(* context.report for a used binding whose name matches an ignore pattern. *)
UsedIgnoredReport(b, config, kind) ==
    [messageId |-> "usedIgnoredVar",
     data |-> getUsedIgnoredMessageData(b, config, kind)]

----------------------------------------------------------------------------
(* collectUnusedVariables: what the loop body does with binding i.         *)
(*   "skip"        the binding is not examined or is exempt                *)
(*   "usedIgnored" it matches the pattern named by cat and is used, with   *)
(*                 reportUsedIgnorePattern on: reported at once            *)
(*   "unused"      it is pushed to unusedVars                              *)
(*   "keep"        it is used, exported or a rest sibling                  *)

Outcome(kind, cat) == [kind |-> kind, cat |-> cat]

(* The binding's name matched the pattern of category cat. *)
Ignored(b, config, cat) ==
    IF config.reportUsedIgnorePattern /\ isUsedVariable(b)
    THEN Outcome("usedIgnored", cat)
    ELSE Outcome("skip", cat)

(* The final test of the loop body. *)
Unexempted(b, config) ==
    IF ~isUsedVariable(b) /\ ~isExported(b) /\ ~hasRestSpreadSibling(b, config)
    THEN Outcome("unused", "")
    ELSE Outcome("keep", "")

refUsedInArrayPatterns(b) == \E k \in 1..Len(b.refs) : b.refs[k].parent = "array"

CollectOutcome(bindings, i, config) ==
    LET b == bindings[i] IN
    IF b.scopeType = "global" /\ config.vars # "all" THEN Outcome("skip", "")
    ELSE IF ~config.reportUsedIgnorePattern /\ b.eslintUsed THEN Outcome("skip", "")
    ELSE IF b.defType = "none" THEN Unexempted(b, config)
    ELSE IF /\ b.arrayElem \/ refUsedInArrayPatterns(b)
            /\ Matches(config.destructuredArrayIgnorePattern, b.name)
         THEN Ignored(b, config, "array-destructure")
    ELSE IF /\ b.defType = "ClassName"
            /\ config.ignoreClassWithStaticInitBlock /\ b.hasStaticBlock
         THEN Outcome("skip", "")
    ELSE IF b.defType = "Variable" /\ config.ignoreUsingDeclarations /\ b.using
         THEN Outcome("skip", "")
    ELSE IF b.defType = "CatchClause" THEN
           IF config.caughtErrors = "none" THEN Outcome("skip", "")
           ELSE IF Matches(config.caughtErrorsIgnorePattern, b.name)
                THEN Ignored(b, config, "catch-clause")
                ELSE Unexempted(b, config)
    ELSE IF b.defType = "Parameter" THEN
           IF b.setter \/ config.args = "none" THEN Outcome("skip", "")
           ELSE IF Matches(config.argsIgnorePattern, b.name)
                THEN Ignored(b, config, "parameter")
           ELSE IF /\ config.args = "after-used" /\ b.directParam
                   /\ ~isAfterLastUsedArg(bindings, i)
                THEN Outcome("skip", "")
                ELSE Unexempted(b, config)
    ELSE IF Matches(config.varsIgnorePattern, b.name)
         THEN Ignored(b, config, "variable")
         ELSE Unexempted(b, config)

----------------------------------------------------------------------------
(* Suggestions.  Each report of an unused binding may carry one suggestion *)
(* (messageId "removeVar") whose fix removes the binding from the source   *)
(* text.  The text is a string, a range is a pair of positions in it       *)
(* (first and last character), and a site tells where a binding is         *)
(* declared:                                                               *)
(*   list    what the declaring node is a slot of:                         *)
(*           "declarators"  the declarators of a variable declaration      *)
(*           "params"       the parameters of a function                   *)
(*           "elements"     the elements of an array pattern               *)
(*           "statement"    nothing: the node is a whole statement or      *)
(*                          declaration                                    *)
(*           "comment"      nothing: the name stands in a /*global*/       *)
(*                          comment                                        *)
(*           "none"         the site is not described                      *)
(*   node    the range of the slot (declarator, parameter, element)        *)
(*   index   the slot's position in the list, count the list's length      *)
(*   outer   for the slot of a pattern or declaration, the site of that    *)
(*           pattern or declaration                                        *)
(*   call    the declarator's initializer is a call expression             *)

Span(s, e) == [start |-> s, end |-> e]

(* The first position from `from` on where sub occurs in code (0: none). *)
IndexOf(code, sub, from) ==
    LET hits == {p \in from..(Len(code) - Len(sub) + 1) :
                    SubSeq(code, p, p + Len(sub) - 1) = sub}
    IN  IF hits = {} THEN 0 ELSE CHOOSE p \in hits : \A q \in hits : p <= q

(* The last position up to `upto` where sub occurs in code (0: none). *)
LastIndexOf(code, sub, upto) ==
    LET hits == {p \in 1..upto : SubSeq(code, p, p + Len(sub) - 1) = sub}
    IN  IF hits = {} THEN 0 ELSE CHOOSE p \in hits : \A q \in hits : q <= p

(* The range of the first occurrence of sub in code. *)
RangeOf(code, sub) ==
    LET s == IndexOf(code, sub, 1) IN Span(s, s + Len(sub) - 1)

(* fixer.removeRange: the text without the range. *)
removeRange(code, range) ==
    SubSeq(code, 1, range.start - 1) \o SubSeq(code, range.end + 1, Len(code))

NoSite == [list |-> "none"]

Site(list, node, index, count, outer) ==
    [list |-> list, node |-> node, index |-> index, count |-> count,
     outer |-> outer, call |-> FALSE]

(* The range the fix removes for a binding declared at site.               *)
(*   - the only parameter of a function: the parameter alone;              *)
(*   - the only slot of another list: what removes the enclosing pattern   *)
(*     or declaration;                                                     *)
(*   - an element of an array pattern that is not the last: the element    *)
(*     alone, which leaves a hole;                                         *)
(*   - the first slot: the slot through the comma after it;                *)
(*   - any other slot: the comma before it through the slot.               *)
RECURSIVE removalRange(_, _)
removalRange(code, site) ==
    IF site.list = "statement" THEN site.node
    ELSE IF site.count = 1
         THEN IF site.list = "params" THEN site.node
              ELSE removalRange(code, site.outer)
    ELSE IF site.list = "elements" /\ site.index < site.count THEN site.node
    ELSE IF site.index = 1
         THEN Span(site.node.start, IndexOf(code, ",", site.node.end + 1))
         ELSE Span(LastIndexOf(code, ",", site.node.start - 1), site.node.end)

(* The binding is written somewhere else than in its declaration. *)
hasWriteReference(b) ==
    \E k \in 1..Len(b.refs) : b.refs[k].write /\ ~b.refs[k].init

(* The characters that break a line. *)
LineBreaks == {"\n", "\r"}

(* sourceCode.getLocFromIndex: the line and the column of position p. *)
getLocFromIndex(code, p) ==
    LET breaks == {q \in 1..(p - 1) : SubSeq(code, q, q) \in LineBreaks}
        last == IF breaks = {} THEN 0
                ELSE CHOOSE q \in breaks : \A r \in breaks : r <= q
    IN  [line |-> 1 + Cardinality(breaks), column |-> p - last]

(* The location of a range: where it starts and where the text after it    *)
(* starts.                                                                 *)
Loc(code, range) ==
    LET s == getLocFromIndex(code, range.start)
        e == getLocFromIndex(code, range.end + 1)
    IN  [line |-> s.line, column |-> s.column,
         endLine |-> e.line, endColumn |-> e.column]

(* astUtils.getNameLocationInGlobalDirectiveComment: the range of the      *)
(* name in the comment, looked for after the word "global": the first      *)
(* occurrence that stands after a blank, a line break or a comma and       *)
(* before one of those, a colon or the end of the comment.                 *)
getNameLocationInGlobalDirectiveComment(code, comment, name) ==
    LET from == IndexOf(code, "global", comment.start) + 6
        last == comment.end - 2
        hits == {p \in from..(last - Len(name) + 1) :
                    /\ SubSeq(code, p, p + Len(name) - 1) = name
                    /\ SubSeq(code, p - 1, p - 1) \in LineBreaks \cup {" ", ","}
                    /\ \/ p + Len(name) - 1 = last
                       \/ SubSeq(code, p + Len(name), p + Len(name))
                              \in LineBreaks \cup {" ", ",", ":"}}
        p == CHOOSE h \in hits : \A q \in hits : h <= q
    IN  Span(p, p + Len(name) - 1)

(* The write references made from the binding's own variable scope. *)
ownWriteReferences(b) ==
    {k \in DOMAIN b.refs : b.refs[k].write /\ ~b.refs[k].otherScope}

(* Where the identifier the report points at starts: the identifier of     *)
(* the last write reference of the binding's own variable scope (the       *)
(* declaring identifier when that is the initialisation), otherwise the    *)
(* declaring identifier.                                                   *)
reportedIdentifier(b) ==
    LET own == ownWriteReferences(b)
        last == CHOOSE k \in own : \A j \in own : j <= k
    IN  IF own = {} \/ b.refs[last].init THEN b.at ELSE b.refs[last].at

(* The location of the report of unused binding b, where the case gives    *)
(* positions: a name that a /*global*/ comment declares is reported where  *)
(* it stands in the comment, a declared binding at reportedIdentifier.     *)
getReportLocation(code, b, site) ==
    IF site.list = "comment" THEN <<Loc(code, site.node)>>
    ELSE IF b.at = 0 THEN <<>>
    ELSE <<Loc(code, Span(reportedIdentifier(b),
                          reportedIdentifier(b) + Len(b.name) - 1))>>

(* The suggestions of the report of unused binding b: none or one. *)
getSuggestions(code, b, site) ==
    IF \/ site.list \in {"none", "comment"}
       \/ b.defType = "none"
       \/ hasWriteReference(b)
    THEN <<>>
    ELSE <<removeRange(code, removalRange(code, site))>>

----------------------------------------------------------------------------
(* The test file's helpers building an expected error.                     *)

(* definedError with the other helper's action verb. *)
definedError_WrongAction(varName, additional) ==
    [messageId |-> "unusedVar",
     data |-> [varName |-> varName, action |-> "assigned a value",
               additional |-> additional]]

definedError(varName, additional) ==
    [messageId |-> "unusedVar",
     data |-> [varName |-> varName, action |-> "defined",
               additional |-> additional]]

(* assignedError with the other helper's action verb. *)
assignedError_WrongAction(varName, additional) ==
    [messageId |-> "unusedVar",
     data |-> [varName |-> varName, action |-> "defined",
               additional |-> additional]]

assignedError(varName, additional) ==
    [messageId |-> "unusedVar",
     data |-> [varName |-> varName, action |-> "assigned a value",
               additional |-> additional]]

usedIgnoredError(varName, additional) ==
    [messageId |-> "usedIgnoredVar",
     data |-> [varName |-> varName, additional |-> additional]]

(* A case of the test file: the line of its `code`, the scope graph of the *)
(* code, the options and the expected errors (none for a valid case).      *)
Test(line, bindings, config, errors) ==
    [test |-> TRUE, line |-> line, bindings |-> bindings, config |-> config,
     errors |-> errors, code |-> "", sites |-> <<>>, outputs |-> <<>>,
     locs |-> <<>>]

(* The case with its `code` as text, the sites of its bindings and, for    *)
(* each expected error in turn, the `output` of its suggestions.           *)
WithSuggestions(t, code, sites, outputs) ==
    [t EXCEPT !.code = code, !.sites = sites, !.outputs = outputs]

(* The case with, for each expected error in turn, the location the test   *)
(* gives for it.                                                           *)
WithLocations(t, locs) == [t EXCEPT !.locs = locs]

(* line and column of an expected error that gives no more. *)
LineColumn(line, column) == <<[line |-> line, column |-> column]>>

(* line, column, endLine and endColumn of an expected error. *)
At(line, column, endLine, endColumn) ==
    <<[line |-> line, column |-> column,
       endLine |-> endLine, endColumn |-> endColumn]>>

(* The site of a name that the /*global*/ comment with this text declares. *)
GlobalComment(code, comment, name) ==
    Site("comment",
         getNameLocationInGlobalDirectiveComment(code, RangeOf(code, comment), name),
         1, 1, Site("comment", RangeOf(code, comment), 1, 1, NoSite))

(* The site of a whole statement or declaration with this text. *)
Statement(code, text) == Site("statement", RangeOf(code, text), 1, 1, NoSite)
(* The site of the index-th of count declarators of the declaration decl. *)
Declarator(code, text, index, count, decl) ==
    Site("declarators", RangeOf(code, text), index, count, Statement(code, decl))
(* The range of the first occurrence of text in the first occurrence of    *)
(* context.                                                                *)
RangeIn(code, context, text) ==
    LET s == IndexOf(code, text, IndexOf(code, context, 1))
    IN  Span(s, s + Len(text) - 1)
(* The site of the index-th of count parameters of a function. *)
Parameter(code, text, index, count) ==
    Site("params", RangeOf(code, text), index, count, NoSite)
(* The site of the index-th of count elements of the array pattern (with   *)
(* this text) that stands at the site outer.                               *)
Element(code, pattern, text, index, count, outer) ==
    Site("elements", RangeIn(code, pattern, text), index, count, outer)
(* A declarator whose initializer is a call expression. *)
CallInit(site) == [site EXCEPT !.call = TRUE]

(* options: ["all"] *)
VarsAll == [DefaultConfig EXCEPT !.vars = "all"]

(* A binding at the top level of a module. *)
InModule(b) == [b EXCEPT !.scopeType = "module"]
(* A binding declared in a function body. *)
InFunction(b) == [b EXCEPT !.scopeType = "function"]
(* A binding an `export` declaration declares. *)
ExportDecl(b) == [b EXCEPT !.scopeType = "module", !.exportDecl = TRUE]
(* A binding an /*exported*/ comment names. *)
ExportedComment(b) == [b EXCEPT !.eslintExported = TRUE, !.eslintUsed = TRUE]
(* A binding whose defining identifier is an element of an array pattern. *)
ArrayElem(b) == [b EXCEPT !.arrayElem = TRUE]
(* A parameter declared inside a pattern of the parameter list. *)
InPattern(b) == [b EXCEPT !.directParam = FALSE]
(* A variable initialised with a function or arrow expression. *)
FnInit(b) == [b EXCEPT !.fnDef = TRUE]
(* A binding that stands, where it is declared or where it is assigned, as *)
(* a property of an object pattern whose last element is a rest element.   *)
RestSibling(b) == [b EXCEPT !.restSibling = TRUE]
(* A variable declared by `using` or `await using`. *)
Using(b) == [b EXCEPT !.using = TRUE]
(* A class whose body has a static initialization block. *)
WithStaticBlock(b) == [b EXCEPT !.hasStaticBlock = TRUE]
(* A reference located in a loop. *)
InLoop(ref) == [ref EXCEPT !.inLoop = TRUE]
(* A reference made from a nested function. *)
Nested(ref) == [ref EXCEPT !.otherScope = TRUE]
(* A read inside a function of the right side that can be stored. *)
Storable(ref) == [ref EXCEPT !.storable = TRUE, !.otherScope = TRUE]
(* A binding or a reference whose identifier is the start of the first     *)
(* occurrence of text in the code.                                         *)
Placed(x, code, text) == [x EXCEPT !.at = IndexOf(code, text, 1)]
(* The same, text being looked for from the first occurrence of context.   *)
PlacedIn(x, code, context, text) ==
    [x EXCEPT !.at = IndexOf(code, text, IndexOf(code, context, 1))]

(* ---- valid ---- *)

(* a; var a; *)
T131 == Test(131, <<Var(<<"a">>, <<Read>>)>>, VarsAll, <<>>)
(* var a=10; alert(a); *)
T132 == Test(132, <<Var(<<"a">>, <<InitW, Read>>)>>, VarsAll, <<>>)
(* var a=10; (function() { alert(a); })(); *)
(* The same case, expecting the read variable to be reported. *)
T133_ExpectsUnused ==
    Test(133, <<Var(<<"a">>, <<InitW, ReadNested>>)>>, VarsAll,
         <<assignedError(<<"a">>, "")>>)
T133 == Test(133, <<Var(<<"a">>, <<InitW, ReadNested>>)>>, VarsAll, <<>>)
(* var a=10; (function() { setTimeout(function() { alert(a); }, 0); })(); *)
T135 == Test(135, <<Var(<<"a">>, <<InitW, ReadNested>>)>>, VarsAll, <<>>)
(* (function() { var a=10; return a; })(); *)
T139 == Test(139, <<LocalVar(<<"a">>, <<InitW, Read>>)>>, VarsAll, <<>>)
(* function a(x, y){ return y; }; a(); *)
T146 == Test(146, <<Func(<<"a">>, <<Read>>), Param(<<"x">>, 1, <<>>),
                    Param(<<"y">>, 1, <<Read>>)>>, VarsAll, <<>>)
(* var a=10;   options: ["local"] *)
T151 == Test(151, <<Var(<<"a">>, <<InitW>>)>>,
             [DefaultConfig EXCEPT !.vars = "local"], <<>>)
(* function g(bar, baz) { return baz; }; g();   vars "all" *)
T164 == Test(164, <<Func(<<"g">>, <<Read>>), Param(<<"b", "a", "r">>, 1, <<>>),
                    Param(<<"b", "a", "z">>, 1, <<Read>>)>>, VarsAll, <<>>)
(* function g(bar, baz) { return baz; }; g();   vars "all", args "after-used" *)
T168 == Test(168, <<Func(<<"g">>, <<Read>>), Param(<<"b", "a", "r">>, 1, <<>>),
                    Param(<<"b", "a", "z">>, 1, <<Read>>)>>,
             [DefaultConfig EXCEPT !.vars = "all", !.args = "after-used"], <<>>)
(* function g(bar, baz) { return bar; }; g();   vars "all", args "none" *)
T172 == Test(172, <<Func(<<"g">>, <<Read>>), Param(<<"b", "a", "r">>, 1, <<Read>>),
                    Param(<<"b", "a", "z">>, 1, <<>>)>>,
             [DefaultConfig EXCEPT !.vars = "all", !.args = "none"], <<>>)
(* function g(bar, baz) { return 2; }; g();   vars "all", args "none" *)
T176 == Test(176, <<Func(<<"g">>, <<Read>>), Param(<<"b", "a", "r">>, 1, <<>>),
                    Param(<<"b", "a", "z">>, 1, <<>>)>>,
             [DefaultConfig EXCEPT !.vars = "all", !.args = "none"], <<>>)
(* function g(bar, baz) { return bar + baz; }; g();   vars "local", args "all" *)
T180 == Test(180, <<Func(<<"g">>, <<Read>>), Param(<<"b", "a", "r">>, 1, <<Read>>),
                    Param(<<"b", "a", "z">>, 1, <<Read>>)>>,
             [DefaultConfig EXCEPT !.vars = "local", !.args = "all"], <<>>)
(* var g = function(bar, baz) { return 2; }; g();   vars "all", args "none" *)
T184 == Test(184, <<FnInit(Var(<<"g">>, <<InitW, Read>>)),
                    Param(<<"b", "a", "r">>, 1, <<>>),
                    Param(<<"b", "a", "z">>, 1, <<>>)>>,
             [DefaultConfig EXCEPT !.vars = "all", !.args = "none"], <<>>)
(* export var foo = 123; *)
T194 == Test(194, <<ExportDecl(Var(<<"f", "o", "o">>, <<InitW>>))>>, DefaultConfig, <<>>)
(* export function foo () {} *)
T198 == Test(198, <<ExportDecl(Func(<<"f", "o", "o">>, <<>>))>>, DefaultConfig, <<>>)
(* let toUpper = (partial) => partial.toUpperCase; export {toUpper} *)
T202 == Test(202, <<InModule(FnInit(Var(<<"t", "o", "U", "p", "p", "e", "r">>, <<InitW, Read>>))),
                    Param(<<"p", "a", "r", "t", "i", "a", "l">>, 1, <<Read>>)>>, DefaultConfig, <<>>)
(* export class foo {} *)
T206 == Test(206, <<ExportDecl(Class(<<"f", "o", "o">>, <<>>))>>, DefaultConfig, <<>>)
(* /*exported toaster*/ var toaster = 'great' *)
T323 == Test(323, <<ExportedComment(Var(<<"t", "o", "a", "s", "t", "e", "r">>, <<InitW>>))>>,
             DefaultConfig, <<>>)
(* /*exported x, y*/  var { x, y } = z *)
T330 == Test(330, <<ExportedComment(Var(<<"x">>, <<InitW>>)),
                    ExportedComment(Var(<<"y">>, <<InitW>>))>>, DefaultConfig, <<>>)
(* const [ a, _b, c ] = items;\nconsole.log(a+c); *)
(* The same case, expecting the ignored array element to be reported. *)
T362_ExpectsUnused ==
    Test(362, <<ArrayElem(Var(<<"a">>, <<InitW, Read>>)),
                ArrayElem(Var(<<"_", "b">>, <<InitW>>)),
                ArrayElem(Var(<<"c">>, <<InitW, Read>>))>>,
         [DefaultConfig EXCEPT !.destructuredArrayIgnorePattern = P_underscore],
         <<assignedError(<<"_", "b">>,
             ". Allowed unused elements of array destructuring must match /^_/u")>>)
T362 == Test(362, <<ArrayElem(Var(<<"a">>, <<InitW, Read>>)),
                    ArrayElem(Var(<<"_", "b">>, <<InitW>>)),
                    ArrayElem(Var(<<"c">>, <<InitW, Read>>))>>,
             [DefaultConfig EXCEPT !.destructuredArrayIgnorePattern = P_underscore],
             <<>>)
(* function baz([_b, foo]) { foo; };\nbaz() *)
T377 == Test(377, <<Func(<<"b", "a", "z">>, <<Read>>),
                    ArrayElem(InPattern(Param(<<"_", "b">>, 1, <<>>))),
                    ArrayElem(InPattern(Param(<<"f", "o", "o">>, 1, <<Read>>)))>>,
             [DefaultConfig EXCEPT !.destructuredArrayIgnorePattern = P_underscore],
             <<>>)
(* let _a, b; foo.forEach(item => { [_a, b] = item; doSomething(b); }); *)
T392 == Test(392, <<Var(<<"_", "a">>, <<Nested(ArrayW)>>),
                    Var(<<"b">>, <<Nested(ArrayW), ReadNested>>),
                    Param(<<"i", "t", "e", "m">>, 1, <<Read>>)>>,
             [DefaultConfig EXCEPT !.destructuredArrayIgnorePattern = P_underscore],
             <<>>)
(* (function(obj) { var name; for ( name in obj ) return; })({}); *)
T448 == Test(448, <<Param(<<"o", "b", "j">>, 1, <<Read>>),
                    LocalVar(<<"n", "a", "m", "e">>, <<ForW("return")>>)>>,
             DefaultConfig, <<>>)
(* (function(obj) { var name; for ( name in obj ) { return; } })({}); *)
T449 == Test(449, <<Param(<<"o", "b", "j">>, 1, <<Read>>),
                    LocalVar(<<"n", "a", "m", "e">>, <<ForW("blockReturn")>>)>>,
             DefaultConfig, <<>>)
(* (function(obj) { for ( var name in obj ) { return true } })({}) *)
T450 == Test(450, <<Param(<<"o", "b", "j">>, 1, <<Read>>),
                    LocalVar(<<"n", "a", "m", "e">>, <<ForDeclW("blockReturn")>>)>>,
             DefaultConfig, <<>>)
(* (function(iter) { let name; for ( name of iter ) return; })({}); *)
T480 == Test(480, <<Param(<<"i", "t", "e", "r">>, 1, <<Read>>),
                    LocalVar(<<"n", "a", "m", "e">>, <<ForW("return")>>)>>,
             DefaultConfig, <<>>)
(* let x = 0; foo = (0, x++); *)
(* The same case, expecting the incremented variable to be reported. *)
T508_ExpectsUnused ==
    Test(508, <<Var(<<"x">>, <<InitW, UpdateRW(Ctx(<<"last">>, FALSE))>>)>>,
         DefaultConfig, <<assignedError(<<"x">>, "")>>)
T508 == Test(508, <<Var(<<"x">>, <<InitW, UpdateRW(Ctx(<<"last">>, FALSE))>>)>>,
             DefaultConfig, <<>>)
(* let x = 0; foo = (0, x += 1); *)
T512 == Test(512, <<Var(<<"x">>, <<InitW, CompoundRW(1, Ctx(<<"last">>, FALSE))>>)>>,
             DefaultConfig, <<>>)
(* let x = 0; foo = (0, x = x + 1); *)
T516 == Test(516, <<Var(<<"x">>, <<InitW, AssignW(1, Ctx(<<"last">>, FALSE)),
                                  ReadIn(1)>>)>>, DefaultConfig, <<>>)
(* try{}catch(err){}   caughtErrors: "none" *)
(* The same case, expecting the catch binding to be reported. *)
T522_ExpectsUnused ==
    Test(522, <<CatchParam(<<"e", "r", "r">>, <<>>)>>,
         [DefaultConfig EXCEPT !.caughtErrors = "none"],
         <<definedError(<<"e", "r", "r">>, "")>>)
T522 == Test(522, <<CatchParam(<<"e", "r", "r">>, <<>>)>>,
             [DefaultConfig EXCEPT !.caughtErrors = "none"], <<>>)
(* try{}catch(err){console.error(err);}   caughtErrors: "all" *)
T526 == Test(526, <<CatchParam(<<"e", "r", "r">>, <<Read>>)>>, DefaultConfig, <<>>)
(* try{}catch(ignoreErr){}   caughtErrorsIgnorePattern: "^ignore" *)
T530 == Test(530, <<CatchParam(<<"i", "g", "n", "o", "r", "e", "E", "r", "r">>, <<>>)>>,
             [DefaultConfig EXCEPT !.caughtErrorsIgnorePattern = P_ignore], <<>>)
(* try{}catch(err){}   caughtErrors: "none", vars: "all", args: "all" *)
T552 == Test(552, <<CatchParam(<<"e", "r", "r">>, <<>>)>>,
             [DefaultConfig EXCEPT !.caughtErrors = "none", !.vars = "all",
                                   !.args = "all"], <<>>)
(* const data = { type: 'coords', x: 1, y: 2 };\nconst { type, ...coords } = data;\n
   console.log(coords);   ignoreRestSiblings *)
(* The same case, expecting the rest sibling to be reported. *)
T558_ExpectsUnused ==
    Test(558, <<Var(<<"d", "a", "t", "a">>, <<InitW, Read>>),
                RestSibling(Var(<<"t", "y", "p", "e">>, <<InitW>>)),
                Var(<<"c", "o", "o", "r", "d", "s">>, <<InitW, Read>>)>>,
         [DefaultConfig EXCEPT !.ignoreRestSiblings = TRUE],
         <<assignedError(<<"t", "y", "p", "e">>, "")>>)
T558 == Test(558, <<Var(<<"d", "a", "t", "a">>, <<InitW, Read>>),
                    RestSibling(Var(<<"t", "y", "p", "e">>, <<InitW>>)),
                    Var(<<"c", "o", "o", "r", "d", "s">>, <<InitW, Read>>)>>,
             [DefaultConfig EXCEPT !.ignoreRestSiblings = TRUE], <<>>)
(* try {} catch ({ foo, ...bar }) { console.log(bar); }   ignoreRestSiblings *)
T563 == Test(563, <<RestSibling(CatchParam(<<"f", "o", "o">>, <<>>)),
                    CatchParam(<<"b", "a", "r">>, <<Read>>)>>,
             [DefaultConfig EXCEPT !.ignoreRestSiblings = TRUE], <<>>)
(* var a = 0, b; b = a = a + 1; foo(b); *)
T569 == Test(569, <<Var(<<"a">>, <<InitW, AssignW(1, Consumed), ReadIn(1)>>),
                    Var(<<"b">>, <<AssignW(2, Stmt), Read>>)>>, DefaultConfig, <<>>)
(* var a = 0, b; b = a += a + 1; foo(b); *)
T570 == Test(570, <<Var(<<"a">>, <<InitW, CompoundRW(1, Consumed), ReadIn(1)>>),
                    Var(<<"b">>, <<AssignW(2, Stmt), Read>>)>>, DefaultConfig, <<>>)
(* var a = 0, b; b = a++; foo(b); *)
(* The same case, expecting the incremented variable to be reported. *)
T571_ExpectsUnused ==
    Test(571, <<Var(<<"a">>, <<InitW, UpdateRW(Consumed)>>),
                Var(<<"b">>, <<AssignW(2, Stmt), Read>>)>>, DefaultConfig,
         <<assignedError(<<"a">>, "")>>)
T571 == Test(571, <<Var(<<"a">>, <<InitW, UpdateRW(Consumed)>>),
                    Var(<<"b">>, <<AssignW(2, Stmt), Read>>)>>, DefaultConfig, <<>>)
(* function foo(a) { var b = a++; bar(b) } foo(); *)
T574 == Test(574, <<Func(<<"f", "o", "o">>, <<Read>>),
                    Param(<<"a">>, 1, <<UpdateRW(Consumed)>>),
                    LocalVar(<<"b">>, <<InitW, Read>>)>>, DefaultConfig, <<>>)
(* var ref;\nref = setInterval(\nfunction(){\nclearInterval(ref);\n}, 10); *)
T586 == Test(586, <<Var(<<"r", "e", "f">>, <<AssignW(1, Stmt), Storable(ReadIn(1))>>)>>,
             DefaultConfig, <<>>)
(* function someFunction() {\nvar a = 0, i;\nfor (i = 0; i < 2; i++) {\n
   a = myFunction(a);\n}\n}\nsomeFunction(); *)
T612 == Test(612, <<Func(<<"s", "o", "m", "e", "F", "u", "n", "c", "t", "i", "o", "n">>, <<Read>>),
                    LocalVar(<<"a">>, <<InitW, InLoop(AssignW(1, Stmt)),
                                       InLoop(ReadIn(1))>>),
                    LocalVar(<<"i">>, <<AssignW(2, Consumed), Read,
                                       InLoop(UpdateRW(Consumed))>>)>>,
             DefaultConfig, <<>>)
(* (function(a, b, c) { c })   argsIgnorePattern: "c" *)
T635 == Test(635, <<Param(<<"a">>, 1, <<>>), Param(<<"b">>, 1, <<>>),
                    Param(<<"c">>, 1, <<Read>>)>>,
             [DefaultConfig EXCEPT !.argsIgnorePattern = P_c], <<>>)
(* (({a, ...rest}) => rest)   args "all", ignoreRestSiblings *)
T656 == Test(656, <<RestSibling(InPattern(Param(<<"a">>, 1, <<>>))),
                    InPattern(Param(<<"r", "e", "s", "t">>, 1, <<Read>>))>>,
             [DefaultConfig EXCEPT !.args = "all", !.ignoreRestSiblings = TRUE], <<>>)
(* let foo, rest;\n({ foo, ...rest } = something);\nconsole.log(rest);
   ignoreRestSiblings *)
T663 == Test(663, <<RestSibling(Var(<<"f", "o", "o">>, <<PatternW>>)),
                    Var(<<"r", "e", "s", "t">>, <<PatternW, Read>>)>>,
             [DefaultConfig EXCEPT !.ignoreRestSiblings = TRUE], <<>>)
(* var a = function () { a(); }; a(); *)
T672 == Test(672, <<FnInit(Var(<<"a">>, <<InitW, SelfCall, Read>>))>>,
             DefaultConfig, <<>>)
(* var a = function(){ return function () { a(); } }; a(); *)
T673 == Test(673, <<FnInit(Var(<<"a">>, <<InitW, SelfCall, Read>>))>>,
             DefaultConfig, <<>>)
(* const a = () => { a(); }; a(); *)
T675 == Test(675, <<FnInit(Var(<<"a">>, <<InitW, SelfCall, Read>>))>>,
             DefaultConfig, <<>>)
(* var a; a ||= 1; *)
T697 == Test(697, <<Var(<<"a">>, <<LogicalRW(1, Stmt)>>)>>, DefaultConfig, <<>>)
(* The same case, expecting the class to be reported. *)
T711_ExpectsUnused ==
    Test(711, <<WithStaticBlock(Class(<<"F", "o", "o">>, <<>>))>>,
         [DefaultConfig EXCEPT !.ignoreClassWithStaticInitBlock = TRUE],
         <<definedError(<<"F", "o", "o">>, "")>>)
(* class Foo { static {} }   ignoreClassWithStaticInitBlock *)
T711 == Test(711, <<WithStaticBlock(Class(<<"F", "o", "o">>, <<>>))>>,
             [DefaultConfig EXCEPT !.ignoreClassWithStaticInitBlock = TRUE], <<>>)
(* class Foo { static {} }   ignoreClassWithStaticInitBlock, varsIgnorePattern "^_" *)
T716 == Test(716, <<WithStaticBlock(Class(<<"F", "o", "o">>, <<>>))>>,
             [DefaultConfig EXCEPT !.ignoreClassWithStaticInitBlock = TRUE,
                                   !.varsIgnorePattern = P_underscore], <<>>)
(* class Foo { static {} }   ignoreClassWithStaticInitBlock false,
   varsIgnorePattern "^Foo" *)
T726 == Test(726, <<WithStaticBlock(Class(<<"F", "o", "o">>, <<>>))>>,
             [DefaultConfig EXCEPT !.varsIgnorePattern = P_Foo], <<>>)
(* const a = 5; const _c = a + 5;   varsIgnorePattern "^_", reportUsedIgnorePattern *)
T738 == Test(738, <<Var(<<"a">>, <<InitW, Read>>), Var(<<"_", "c">>, <<InitW>>)>>,
             [DefaultConfig EXCEPT !.args = "all", !.varsIgnorePattern = P_underscore,
                                   !.reportUsedIgnorePattern = TRUE], <<>>)
(* (function foo(a, _b) { return a + 5 })(5)   argsIgnorePattern "^_",
   reportUsedIgnorePattern *)
T749 == Test(749, <<Param(<<"a">>, 1, <<Read>>), Param(<<"_", "b">>, 1, <<>>)>>,
             [DefaultConfig EXCEPT !.args = "all", !.argsIgnorePattern = P_underscore,
                                   !.reportUsedIgnorePattern = TRUE], <<>>)
(* const [ a, _b, c ] = items;\nconsole.log(a+c);   destructuredArrayIgnorePattern
   "^_", reportUsedIgnorePattern *)
T759 == Test(759, <<ArrayElem(Var(<<"a">>, <<InitW, Read>>)),
                    ArrayElem(Var(<<"_", "b">>, <<InitW>>)),
                    ArrayElem(Var(<<"c">>, <<InitW, Read>>))>>,
             [DefaultConfig EXCEPT !.destructuredArrayIgnorePattern = P_underscore,
                                   !.reportUsedIgnorePattern = TRUE], <<>>)

ValidCases == {T131, T132, T133, T135, T139, T146, T151, T164, T168, T172,
               T176, T180, T184, T194, T198, T202, T206,
               T323, T330, T362, T377, T392, T448, T449, T450, T480, T508, T512, T516, T522, T526, T530,
               T552,
               T558, T563, T569, T570, T571, T574, T586, T612, T635, T656, T663, T672,
               T673, T675, T697, T711, T716, T726,
               T738, T749, T759}

(* ---- invalid ---- *)

(* function foox() { return foox(); } *)
(* The same case, expecting the recursive function not to be reported. *)
T794_ExpectsNothing ==
    Test(794, <<Func(<<"f", "o", "o", "x">>, <<SelfCall>>)>>, DefaultConfig, <<>>)
T794 == Test(794, <<Func(<<"f", "o", "o", "x">>, <<SelfCall>>)>>, DefaultConfig,
             <<definedError(<<"f", "o", "o", "x">>, "")>>)
(* (function() { function foox() { if (true) { return foox(); } } }()) *)
T806 == Test(806, <<InFunction(Func(<<"f", "o", "o", "x">>, <<SelfCall>>))>>, DefaultConfig,
             <<definedError(<<"f", "o", "o", "x">>, "")>>)
(* var a=10;   options: ["all"] *)
T870 == Test(870, <<Var(<<"a">>, <<InitW>>)>>, VarsAll,
             <<assignedError(<<"a">>, "")>>)
(* function f(a) {}; f(); *)
Code1018 == "function f(a) {}; f();"
T1018 ==
    WithSuggestions(
        Test(1018, <<Func(<<"f">>, <<Read>>), Param(<<"a">>, 1, <<>>)>>,
             VarsAll, <<definedError(<<"a">>, "")>>),
        Code1018,
        <<Statement(Code1018, "function f(a) {}"),
          Parameter(Code1018, "a", 1, 1)>>,
        << <<"function f() {}; f();">> >>)
(* (function(foo, baz, bar) { return baz; })();   vars "all", args "after-used" *)
T1109 == Test(1109, <<Param(<<"f", "o", "o">>, 1, <<>>),
                      Param(<<"b", "a", "z">>, 1, <<Read>>),
                      Param(<<"b", "a", "r">>, 1, <<>>)>>,
              [DefaultConfig EXCEPT !.vars = "all", !.args = "after-used"],
              <<definedError(<<"b", "a", "r">>, "")>>)
(* (function(foo, baz, bar) { return baz; })();   vars "all", args "all" *)
T1122 == Test(1122, <<Param(<<"f", "o", "o">>, 1, <<>>),
                      Param(<<"b", "a", "z">>, 1, <<Read>>),
                      Param(<<"b", "a", "r">>, 1, <<>>)>>,
              [DefaultConfig EXCEPT !.vars = "all", !.args = "all"],
              <<definedError(<<"f", "o", "o">>, ""),
                definedError(<<"b", "a", "r">>, "")>>)
(* /*exported max*/ var max = 1, min = {min: 1} *)
(* The same case, expecting nothing of the declaration to be reported. *)
T1230_ExpectsNothing ==
    Test(1230, <<ExportedComment(Var(<<"m", "a", "x">>, <<InitW>>)),
                 Var(<<"m", "i", "n">>, <<InitW>>)>>, DefaultConfig, <<>>)
T1230 == Test(1230, <<ExportedComment(Var(<<"m", "a", "x">>, <<InitW>>)),
                      Var(<<"m", "i", "n">>, <<InitW>>)>>, DefaultConfig,
              <<assignedError(<<"m", "i", "n">>, "")>>)
(* /*exported x*/ var { x, y } = z *)
T1242 == Test(1242, <<ExportedComment(Var(<<"x">>, <<InitW>>)),
                      Var(<<"y">>, <<InitW>>)>>, DefaultConfig,
              <<assignedError(<<"y">>, "")>>)
(* The same case, expecting the global variable to be reported as well. *)
T1280_ExpectsGlobal ==
    Test(1280, <<Var(<<"a">>, <<>>), Func(<<"f", "o", "o">>, <<Read>>),
                 LocalVar(<<"_", "b">>, <<>>), LocalVar(<<"c", "_">>, <<>>)>>,
         [DefaultConfig EXCEPT !.vars = "local", !.varsIgnorePattern = P_underscore],
         <<definedError(<<"a">>, ". Allowed unused vars must match /^_/u"),
           definedError(<<"c", "_">>, ". Allowed unused vars must match /^_/u")>>)
(* var a; function foo() { var _b; var c_; } foo();   vars "local",
   varsIgnorePattern "^_" *)
T1280 == Test(1280, <<Var(<<"a">>, <<>>), Func(<<"f", "o", "o">>, <<Read>>),
                      LocalVar(<<"_", "b">>, <<>>), LocalVar(<<"c", "_">>, <<>>)>>,
              [DefaultConfig EXCEPT !.vars = "local", !.varsIgnorePattern = P_underscore],
              <<definedError(<<"c", "_">>, ". Allowed unused vars must match /^_/u")>>)
(* function foo(a, _b, c) { return a; } foo();   args "after-used",
   argsIgnorePattern "^_" *)
T1326 == Test(1326, <<Func(<<"f", "o", "o">>, <<Read>>), Param(<<"a">>, 1, <<Read>>),
                      Param(<<"_", "b">>, 1, <<>>), Param(<<"c">>, 1, <<>>)>>,
              [DefaultConfig EXCEPT !.args = "after-used",
                                    !.argsIgnorePattern = P_underscore],
              <<definedError(<<"c">>, ". Allowed unused args must match /^_/u")>>)
(* const array = ['a', 'b', 'c', 'd', 'e']; const [a, _b, c] = array; *)
Code1417 == "const array = ['a', 'b', 'c', 'd', 'e']; const [a, _b, c] = array;"
Pattern1417 ==
    Declarator(Code1417, "[a, _b, c] = array", 1, 1, "const [a, _b, c] = array;")
T1417 ==
    WithSuggestions(
        Test(1417, <<Var(<<"a", "r", "r", "a", "y">>, <<InitW, Read>>),
                     ArrayElem(Var(<<"a">>, <<InitW>>)),
                     ArrayElem(Var(<<"_", "b">>, <<InitW>>)),
                     ArrayElem(Var(<<"c">>, <<InitW>>))>>,
             [DefaultConfig EXCEPT !.destructuredArrayIgnorePattern = P_underscore],
             <<assignedError(<<"a">>,
                 ". Allowed unused elements of array destructuring must match /^_/u"),
               assignedError(<<"c">>,
                 ". Allowed unused elements of array destructuring must match /^_/u")>>),
        Code1417,
        <<Declarator(Code1417, "array = ['a', 'b', 'c', 'd', 'e']", 1, 1,
                     "const array = ['a', 'b', 'c', 'd', 'e'];"),
          Element(Code1417, "[a, _b, c]", "a", 1, 3, Pattern1417),
          Element(Code1417, "[a, _b, c]", "_b", 2, 3, Pattern1417),
          Element(Code1417, "[a, _b, c]", "c", 3, 3, Pattern1417)>>,
        << <<"const array = ['a', 'b', 'c', 'd', 'e']; const [, _b, c] = array;">>,
           <<"const array = ['a', 'b', 'c', 'd', 'e']; const [a, _b] = array;">> >>)
(* const array = [obj]; const [{_a, foo}] = array; console.log(foo); *)
T1526 == Test(1526, <<Var(<<"a", "r", "r", "a", "y">>, <<InitW, Read>>),
                      Var(<<"_", "a">>, <<InitW>>),
                      Var(<<"f", "o", "o">>, <<InitW, Read>>)>>,
              [DefaultConfig EXCEPT !.destructuredArrayIgnorePattern = P_underscore],
              <<assignedError(<<"_", "a">>, "")>>)
(* function foo([{_a, bar}]) {bar;}foo(); *)
T1544 == Test(1544, <<Func(<<"f", "o", "o">>, <<Read>>),
                      InPattern(Param(<<"_", "a">>, 1, <<>>)),
                      InPattern(Param(<<"b", "a", "r">>, 1, <<Read>>))>>,
              [DefaultConfig EXCEPT !.destructuredArrayIgnorePattern = P_underscore],
              <<definedError(<<"_", "a">>, "")>>)
(* const data = { type: 'coords', x: 1, y: 2 };\nconst { type, ...coords } = data;\n
   console.log(coords); *)
T1808 == Test(1808, <<Var(<<"d", "a", "t", "a">>, <<InitW, Read>>),
                      RestSibling(Var(<<"t", "y", "p", "e">>, <<InitW>>)),
                      Var(<<"c", "o", "o", "r", "d", "s">>, <<InitW, Read>>)>>,
              DefaultConfig, <<assignedError(<<"t", "y", "p", "e">>, "")>>)
(* const data = { type: 'coords', x: 2, y: 2 };\nconst { type, ...coords } = data;\n
   console.log(type)   ignoreRestSiblings *)
T1833 == Test(1833, <<Var(<<"d", "a", "t", "a">>, <<InitW, Read>>),
                      RestSibling(Var(<<"t", "y", "p", "e">>, <<InitW, Read>>)),
                      Var(<<"c", "o", "o", "r", "d", "s">>, <<InitW>>)>>,
              [DefaultConfig EXCEPT !.ignoreRestSiblings = TRUE],
              <<assignedError(<<"c", "o", "o", "r", "d", "s">>, "")>>)
(* let type, coords;\n({ type, ...coords } = data);\n console.log(type)
   ignoreRestSiblings *)
T1857 == Test(1857, <<RestSibling(Var(<<"t", "y", "p", "e">>, <<PatternW, Read>>)),
                      Var(<<"c", "o", "o", "r", "d", "s">>, <<PatternW>>)>>,
              [DefaultConfig EXCEPT !.ignoreRestSiblings = TRUE],
              <<assignedError(<<"c", "o", "o", "r", "d", "s">>, "")>>)
(* const data = { type: 'coords', x: 3, y: 2 };\nconst { type, ...coords } = data;\n
   console.log(type) *)
T1876 == Test(1876, <<Var(<<"d", "a", "t", "a">>, <<InitW, Read>>),
                      RestSibling(Var(<<"t", "y", "p", "e">>, <<InitW, Read>>)),
                      Var(<<"c", "o", "o", "r", "d", "s">>, <<InitW>>)>>,
              DefaultConfig,
              <<assignedError(<<"c", "o", "o", "r", "d", "s">>, "")>>)
(* (({a, ...rest}) => {})   args "all", ignoreRestSiblings *)
T1951 == Test(1951, <<RestSibling(InPattern(Param(<<"a">>, 1, <<>>))),
                      InPattern(Param(<<"r", "e", "s", "t">>, 1, <<>>))>>,
              [DefaultConfig EXCEPT !.args = "all", !.ignoreRestSiblings = TRUE],
              <<definedError(<<"r", "e", "s", "t">>, "")>>)
(* try{}catch(err){}; *)
T2173 == Test(2173, <<CatchParam(<<"e", "r", "r">>, <<>>)>>, DefaultConfig,
              <<definedError(<<"e", "r", "r">>, "")>>)
(* try{}catch(err){};   caughtErrors "all", varsIgnorePattern "^err" *)
(* The same case, expecting varsIgnorePattern to exempt the catch binding. *)
T2195_ExpectsNothing ==
    Test(2195, <<CatchParam(<<"e", "r", "r">>, <<>>)>>,
         [DefaultConfig EXCEPT !.caughtErrors = "all", !.varsIgnorePattern = P_err],
         <<>>)
T2195 == Test(2195, <<CatchParam(<<"e", "r", "r">>, <<>>)>>,
              [DefaultConfig EXCEPT !.caughtErrors = "all", !.varsIgnorePattern = P_err],
              <<definedError(<<"e", "r", "r">>, "")>>)
(* try{}catch(err){};   caughtErrors "all", varsIgnorePattern "^." *)
T2200 == Test(2200, <<CatchParam(<<"e", "r", "r">>, <<>>)>>,
              [DefaultConfig EXCEPT !.caughtErrors = "all", !.varsIgnorePattern = P_any],
              <<definedError(<<"e", "r", "r">>, "")>>)
(* try{}catch(ignoreErr){}try{}catch(err){};   caughtErrorsIgnorePattern "^ignore" *)
T2207 == Test(2207, <<CatchParam(<<"i", "g", "n", "o", "r", "e", "E", "r", "r">>, <<>>), CatchParam(<<"e", "r", "r">>, <<>>)>>,
              [DefaultConfig EXCEPT !.caughtErrors = "all",
                                    !.caughtErrorsIgnorePattern = P_ignore],
              <<definedError(<<"e", "r", "r">>,
                  ". Allowed unused caught errors must match /^ignore/u")>>)
(* try{}catch(err){};   vars "all", args "all", caughtErrors "all",
   argsIgnorePattern "^er" *)
T2249 == Test(2249, <<CatchParam(<<"e", "r", "r">>, <<>>)>>,
              [DefaultConfig EXCEPT !.vars = "all", !.args = "all",
                                    !.caughtErrors = "all", !.argsIgnorePattern = P_er],
              <<definedError(<<"e", "r", "r">>, "")>>)
(* var a = 0; a = a + 1; *)
T2262 == Test(2262, <<Var(<<"a">>, <<InitW, AssignW(1, Stmt), ReadIn(1)>>)>>,
              DefaultConfig, <<assignedError(<<"a">>, "")>>)
(* var a = 0; a = a + a; *)
T2263 == Test(2263, <<Var(<<"a">>, <<InitW, AssignW(1, Stmt), ReadIn(1), ReadIn(1)>>)>>,
              DefaultConfig, <<assignedError(<<"a">>, "")>>)
(* var a = 0; a += a + 1; *)
T2264 == Test(2264, <<Var(<<"a">>, <<InitW, CompoundRW(1, Stmt), ReadIn(1)>>)>>,
              DefaultConfig, <<assignedError(<<"a">>, "")>>)
(* var a = 0; a++; *)
T2265 == Test(2265, <<Var(<<"a">>, <<InitW, UpdateRW(Stmt)>>)>>,
              DefaultConfig, <<assignedError(<<"a">>, "")>>)
(* function foo(a) { a = a + 1 } foo(); *)
T2267 == Test(2267, <<Func(<<"f", "o", "o">>, <<Read>>),
                      Param(<<"a">>, 1, <<AssignW(1, Stmt), ReadIn(1)>>)>>,
              DefaultConfig, <<assignedError(<<"a">>, "")>>)
(* function foo(a) { a++ } foo(); *)
T2275 == Test(2275, <<Func(<<"f", "o", "o">>, <<Read>>), Param(<<"a">>, 1, <<UpdateRW(Stmt)>>)>>,
              DefaultConfig, <<assignedError(<<"a">>, "")>>)
(* var a = 2, b = 4; a = a * 2 + b; *)
T2280 == Test(2280, <<Var(<<"a">>, <<InitW, AssignW(1, Stmt), ReadIn(1)>>),
                      Var(<<"b">>, <<InitW, Read>>)>>,
              DefaultConfig, <<assignedError(<<"a">>, "")>>)
(* function foo(cb) { cb = function(a) { cb(1 + a); }; bar(not_cb); } foo(); *)
T2286 == Test(2286, <<Func(<<"f", "o", "o">>, <<Read>>),
                      Param(<<"c", "b">>, 1, <<AssignW(1, Stmt), Nested(ReadIn(1))>>),
                      Param(<<"a">>, 2, <<Read>>)>>,
              DefaultConfig, <<assignedError(<<"c", "b">>, "")>>)
(* (function(a, b, c) {})   argsIgnorePattern "c" *)
T2317 == Test(2317, <<Param(<<"a">>, 1, <<>>), Param(<<"b">>, 1, <<>>),
                      Param(<<"c">>, 1, <<>>)>>,
              [DefaultConfig EXCEPT !.argsIgnorePattern = P_c],
              <<definedError(<<"a">>, ". Allowed unused args must match /c/u"),
                definedError(<<"b">>, ". Allowed unused args must match /c/u")>>)
(* The same case, expecting the used later parameter to spare the pattern's *)
(* binding.                                                                *)
T2473_ExpectsNothing ==
    Test(2473, <<InPattern(Param(<<"a">>, 1, <<>>)), Param(<<"b">>, 1, <<Read>>)>>,
         DefaultConfig, <<>>)
(* (function ({ a }, b ) { return b; })(); *)
T2473 == Test(2473, <<InPattern(Param(<<"a">>, 1, <<>>)), Param(<<"b">>, 1, <<Read>>)>>,
              DefaultConfig, <<definedError(<<"a">>, "")>>)
(* (function ({ a }, { b, c } ) { return b; })(); *)
T2486 == Test(2486, <<InPattern(Param(<<"a">>, 1, <<>>)),
                      InPattern(Param(<<"b">>, 1, <<Read>>)),
                      InPattern(Param(<<"c">>, 1, <<>>))>>,
              DefaultConfig, <<definedError(<<"a">>, ""), definedError(<<"c">>, "")>>)
(* let x = 0;\nx++, x = 0; *)
Code2508 == "let x = 0;\nx++, x = 0;"
T2508 ==
    WithLocations(
        WithSuggestions(
            Test(2508, <<Placed(Var(<<"x">>,
                                    <<InitW,
                                      Placed(UpdateRW(Ctx(<<"nonlast">>, TRUE)),
                                             Code2508, "x++"),
                                      PlacedIn(AssignW(1, Ctx(<<"last">>, TRUE)),
                                               Code2508, "x++", "x = 0")>>),
                                Code2508, "x = 0")>>,
                 DefaultConfig, <<assignedError(<<"x">>, "")>>),
            Code2508, <<>>, << <<>> >>),
        <<LineColumn(2, 6)>>)
(* let x = 0; x++, 0; *)
T2518 == Test(2518, <<Var(<<"x">>, <<InitW, UpdateRW(Ctx(<<"nonlast">>, TRUE))>>)>>,
              DefaultConfig, <<assignedError(<<"x">>, "")>>)
(* let x = 0; 0, x++; *)
T2523 == Test(2523, <<Var(<<"x">>, <<InitW, UpdateRW(Ctx(<<"last">>, TRUE))>>)>>,
              DefaultConfig, <<assignedError(<<"x">>, "")>>)
(* let x = 0; 0, (1, x++); *)
T2528 == Test(2528, <<Var(<<"x">>, <<InitW, UpdateRW(Ctx(<<"last", "last">>, TRUE))>>)>>,
              DefaultConfig, <<assignedError(<<"x">>, "")>>)
(* let x = 0; foo = (x++, 0); *)
T2533 == Test(2533, <<Var(<<"x">>, <<InitW, UpdateRW(Ctx(<<"nonlast">>, FALSE))>>)>>,
              DefaultConfig, <<assignedError(<<"x">>, "")>>)
(* let x = 0; foo = ((0, x++), 0); *)
T2538 == Test(2538, <<Var(<<"x">>, <<InitW,
                                    UpdateRW(Ctx(<<"last", "nonlast">>, FALSE))>>)>>,
              DefaultConfig, <<assignedError(<<"x">>, "")>>)
(* let x = 0; foo = (x += 1, 0); *)
T2558 == Test(2558, <<Var(<<"x">>, <<InitW, CompoundRW(1, Ctx(<<"nonlast">>, FALSE))>>)>>,
              DefaultConfig, <<assignedError(<<"x">>, "")>>)
(* let z = 0;\nz = z + 1, z = 2; *)
T2570 == Test(2570, <<Var(<<"z">>, <<InitW, AssignW(1, Ctx(<<"nonlast">>, TRUE)),
                                    ReadIn(1), AssignW(2, Ctx(<<"last">>, TRUE))>>)>>,
              DefaultConfig, <<assignedError(<<"z">>, "")>>)
(* let x = 0; foo = ((0, x = x + 1), 0); *)
T2607 == Test(2607, <<Var(<<"x">>, <<InitW,
                                    AssignW(1, Ctx(<<"last", "nonlast">>, FALSE)),
                                    ReadIn(1)>>)>>,
              DefaultConfig, <<assignedError(<<"x">>, "")>>)
(* (function ([ a ], b ) { return b; })(); *)
T2642 == Test(2642, <<ArrayElem(InPattern(Param(<<"a">>, 1, <<>>))),
                      Param(<<"b">>, 1, <<Read>>)>>,
              DefaultConfig, <<definedError(<<"a">>, "")>>)
(* (function(_a) {})();   args "all", varsIgnorePattern "^_" *)
T2697 == Test(2697, <<Param(<<"_", "a">>, 1, <<>>)>>,
              [DefaultConfig EXCEPT !.args = "all", !.varsIgnorePattern = P_underscore],
              <<definedError(<<"_", "a">>, "")>>)
(* (function(_a) {})();   args "all", caughtErrorsIgnorePattern "^_" *)
T2710 == Test(2710, <<Param(<<"_", "a">>, 1, <<>>)>>,
              [DefaultConfig EXCEPT !.args = "all",
                                    !.caughtErrorsIgnorePattern = P_underscore],
              <<definedError(<<"_", "a">>, "")>>)
(* var a = function() { a(); }; *)
T2725 == Test(2725, <<FnInit(Var(<<"a">>, <<InitW, SelfCall>>))>>, DefaultConfig,
              <<assignedError(<<"a">>, "")>>)
(* var a = function(){ return function() { a(); } }; *)
T2741 == Test(2741, <<FnInit(Var(<<"a">>, <<InitW, SelfCall>>))>>, DefaultConfig,
              <<assignedError(<<"a">>, "")>>)
(* const a = 1; a += 1; *)
T2779 == Test(2779, <<Var(<<"a">>, <<InitW, CompoundRW(1, Stmt)>>)>>, DefaultConfig,
              <<assignedError(<<"a">>, "")>>)
(* let x = [];\nx = x.concat(x); *)
T2803 == Test(2803, <<Var(<<"x">>, <<InitW, AssignW(1, Stmt), ReadIn(1), ReadIn(1)>>)>>,
              DefaultConfig, <<assignedError(<<"x">>, "")>>)
(* class Foo { static {} }   ignoreClassWithStaticInitBlock false *)
T2855 == Test(2855, <<WithStaticBlock(Class(<<"F", "o", "o">>, <<>>))>>,
              DefaultConfig, <<definedError(<<"F", "o", "o">>, "")>>)
(* class Foo { static {} } *)
T2873 == Test(2873, <<WithStaticBlock(Class(<<"F", "o", "o">>, <<>>))>>,
              DefaultConfig, <<definedError(<<"F", "o", "o">>, "")>>)
(* class Foo { static { var bar; } }   ignoreClassWithStaticInitBlock *)
T2890 == Test(2890, <<WithStaticBlock(Class(<<"F", "o", "o">>, <<>>)),
                      LocalVar(<<"b", "a", "r">>, <<>>)>>,
              [DefaultConfig EXCEPT !.ignoreClassWithStaticInitBlock = TRUE],
              <<definedError(<<"b", "a", "r">>, "")>>)
(* class Foo {}   ignoreClassWithStaticInitBlock *)
T2908 == Test(2908, <<Class(<<"F", "o", "o">>, <<>>)>>,
              [DefaultConfig EXCEPT !.ignoreClassWithStaticInitBlock = TRUE],
              <<definedError(<<"F", "o", "o">>, "")>>)
(* class Foo { static bar; }   ignoreClassWithStaticInitBlock *)
T2926 == Test(2926, <<Class(<<"F", "o", "o">>, <<>>)>>,
              [DefaultConfig EXCEPT !.ignoreClassWithStaticInitBlock = TRUE],
              <<definedError(<<"F", "o", "o">>, "")>>)
(* class Foo { static bar() {} }   ignoreClassWithStaticInitBlock *)
T2944 == Test(2944, <<Class(<<"F", "o", "o">>, <<>>)>>,
              [DefaultConfig EXCEPT !.ignoreClassWithStaticInitBlock = TRUE],
              <<definedError(<<"F", "o", "o">>, "")>>)
(* const _a = 5;const _b = _a + 5   varsIgnorePattern "^_", reportUsedIgnorePattern *)
(* The same case, expecting the used ignored variable not to be reported. *)
T2964_ExpectsNothing ==
    Test(2964, <<Var(<<"_", "a">>, <<InitW, Read>>), Var(<<"_", "b">>, <<InitW>>)>>,
         [DefaultConfig EXCEPT !.args = "all", !.varsIgnorePattern = P_underscore,
                               !.reportUsedIgnorePattern = TRUE], <<>>)
T2964 == Test(2964, <<Var(<<"_", "a">>, <<InitW, Read>>), Var(<<"_", "b">>, <<InitW>>)>>,
              [DefaultConfig EXCEPT !.args = "all", !.varsIgnorePattern = P_underscore,
                                    !.reportUsedIgnorePattern = TRUE],
              <<usedIgnoredError(<<"_", "a">>, ". Used vars must not match /^_/u")>>)
(* const _a = 42; foo(() => _a); *)
T2978 == Test(2978, <<Var(<<"_", "a">>, <<InitW, ReadNested>>)>>,
              [DefaultConfig EXCEPT !.args = "all", !.varsIgnorePattern = P_underscore,
                                    !.reportUsedIgnorePattern = TRUE],
              <<usedIgnoredError(<<"_", "a">>, ". Used vars must not match /^_/u")>>)
(*  (function foo(_a) { return _a + 5 })(5)   argsIgnorePattern "^_",
   reportUsedIgnorePattern *)
T2992 == Test(2992, <<Param(<<"_", "a">>, 1, <<Read>>)>>,
              [DefaultConfig EXCEPT !.args = "all", !.argsIgnorePattern = P_underscore,
                                    !.reportUsedIgnorePattern = TRUE],
              <<usedIgnoredError(<<"_", "a">>, ". Used args must not match /^_/u")>>)
(* const [ a, _b ] = items;\nconsole.log(a+_b); *)
T3005 == Test(3005, <<ArrayElem(Var(<<"a">>, <<InitW, Read>>)),
                      ArrayElem(Var(<<"_", "b">>, <<InitW, Read>>))>>,
              [DefaultConfig EXCEPT !.destructuredArrayIgnorePattern = P_underscore,
                                    !.reportUsedIgnorePattern = TRUE],
              <<usedIgnoredError(<<"_", "b">>,
                  ". Used elements of array destructuring must not match /^_/u")>>)
(* let _x;\n[_x] = arr;\nfoo(_x); *)
T3021 == Test(3021, <<Var(<<"_", "x">>, <<ArrayW, Read>>)>>,
              [DefaultConfig EXCEPT !.destructuredArrayIgnorePattern = P_underscore,
                                    !.reportUsedIgnorePattern = TRUE,
                                    !.varsIgnorePattern = P_ignored],
              <<usedIgnoredError(<<"_", "x">>,
                  ". Used elements of array destructuring must not match /^_/u")>>)
(* const [ignored] = arr;\nfoo(ignored); *)
T3038 == Test(3038, <<ArrayElem(Var(<<"i", "g", "n", "o", "r", "e", "d">>, <<InitW, Read>>))>>,
              [DefaultConfig EXCEPT !.destructuredArrayIgnorePattern = P_underscore,
                                    !.reportUsedIgnorePattern = TRUE,
                                    !.varsIgnorePattern = P_ignored],
              <<usedIgnoredError(<<"i", "g", "n", "o", "r", "e", "d">>,
                  ". Used vars must not match /[iI]gnored/u")>>)
(* try{}catch(_err){console.error(_err)} *)
T3055 == Test(3055, <<CatchParam(<<"_", "e", "r", "r">>, <<Read>>)>>,
              [DefaultConfig EXCEPT !.caughtErrors = "all",
                                    !.caughtErrorsIgnorePattern = P_underscore,
                                    !.reportUsedIgnorePattern = TRUE],
              <<usedIgnoredError(<<"_", "e", "r", "r">>,
                  ". Used caught errors must not match /^_/u")>>)
(* try {} catch ({ message }) { console.error(message); } *)
T3071 == Test(3071, <<CatchParam(<<"m", "e", "s", "s", "a", "g", "e">>, <<Read>>)>>,
              [DefaultConfig EXCEPT !.caughtErrorsIgnorePattern = P_message,
                                    !.reportUsedIgnorePattern = TRUE],
              <<usedIgnoredError(<<"m", "e", "s", "s", "a", "g", "e">>,
                  ". Used caught errors must not match /message/u")>>)
(* try {} catch ([_a, _b]) { doSomething(_a, _b); }   caughtErrorsIgnorePattern *)
T3087 == Test(3087, <<ArrayElem(CatchParam(<<"_", "a">>, <<Read>>)),
                      ArrayElem(CatchParam(<<"_", "b">>, <<Read>>))>>,
              [DefaultConfig EXCEPT !.caughtErrorsIgnorePattern = P_underscore,
                                    !.reportUsedIgnorePattern = TRUE],
              <<usedIgnoredError(<<"_", "a">>, ". Used caught errors must not match /^_/u"),
                usedIgnoredError(<<"_", "b">>, ". Used caught errors must not match /^_/u")>>)
(* try {} catch ([_a, _b]) { doSomething(_a, _b); }   destructuredArrayIgnorePattern *)
T3107 == Test(3107, <<ArrayElem(CatchParam(<<"_", "a">>, <<Read>>)),
                      ArrayElem(CatchParam(<<"_", "b">>, <<Read>>))>>,
              [DefaultConfig EXCEPT !.destructuredArrayIgnorePattern = P_underscore,
                                    !.reportUsedIgnorePattern = TRUE],
              <<usedIgnoredError(<<"_", "a">>,
                  ". Used elements of array destructuring must not match /^_/u"),
                usedIgnoredError(<<"_", "b">>,
                  ". Used elements of array destructuring must not match /^_/u")>>)
(* function foo ({...rest}, a) { alert(a); } foo(); *)
T3608 == Test(3608, <<Func(<<"f", "o", "o">>, <<Read>>),
                      InPattern(Param(<<"r", "e", "s", "t">>, 1, <<>>)),
                      Param(<<"a">>, 1, <<Read>>)>>,
              DefaultConfig, <<definedError(<<"r", "e", "s", "t">>, "")>>)
(* var a;'use strict';b(00); *)
T4485 == Test(4485, <<Var(<<"a">>, <<>>)>>, DefaultConfig,
              <<definedError(<<"a">>, "")>>)

(* var a=10, b=0, c=null; alert(a+b) *)
Code901 == "var a=10, b=0, c=null; alert(a+b)"
(* The same case, expecting the suggestion to leave the comma behind. *)
T901_ExpectsComma ==
    WithSuggestions(
        Test(901, <<Var(<<"a">>, <<InitW, Read>>), Var(<<"b">>, <<InitW, Read>>),
                    Var(<<"c">>, <<InitW>>)>>,
             VarsAll, <<assignedError(<<"c">>, "")>>),
        Code901,
        <<Declarator(Code901, "a=10", 1, 3, "var a=10, b=0, c=null;"),
          Declarator(Code901, "b=0", 2, 3, "var a=10, b=0, c=null;"),
          Declarator(Code901, "c=null", 3, 3, "var a=10, b=0, c=null;")>>,
        << <<"var a=10, b=0, ; alert(a+b)">> >>)
T901 ==
    WithSuggestions(
        Test(901, <<Var(<<"a">>, <<InitW, Read>>), Var(<<"b">>, <<InitW, Read>>),
                    Var(<<"c">>, <<InitW>>)>>,
             VarsAll, <<assignedError(<<"c">>, "")>>),
        Code901,
        <<Declarator(Code901, "a=10", 1, 3, "var a=10, b=0, c=null;"),
          Declarator(Code901, "b=0", 2, 3, "var a=10, b=0, c=null;"),
          Declarator(Code901, "c=null", 3, 3, "var a=10, b=0, c=null;")>>,
        << <<"var a=10, b=0; alert(a+b)">> >>)
(* function f(){var x;function a(){x=42;}function b(){alert(x);}} *)
Code991 == "function f(){var x;function a(){x=42;}function b(){alert(x);}}"
(* The same case, expecting the suggestions inside f's to be dropped. *)
T991_ExpectsDropped ==
    WithSuggestions(
        Test(991, <<Func(<<"f">>, <<>>),
                    LocalVar(<<"x">>, <<Nested(AssignW(1, Stmt)), ReadNested>>),
                    InFunction(Func(<<"a">>, <<>>)),
                    InFunction(Func(<<"b">>, <<>>))>>,
             VarsAll,
             <<definedError(<<"f">>, ""), definedError(<<"a">>, ""),
               definedError(<<"b">>, "")>>),
        Code991,
        <<Statement(Code991, Code991),
          Declarator(Code991, "x", 1, 1, "var x;"),
          Statement(Code991, "function a(){x=42;}"),
          Statement(Code991, "function b(){alert(x);}")>>,
        << <<"">>, <<>>, <<>> >>)
T991 ==
    WithSuggestions(
        Test(991, <<Func(<<"f">>, <<>>),
                    LocalVar(<<"x">>, <<Nested(AssignW(1, Stmt)), ReadNested>>),
                    InFunction(Func(<<"a">>, <<>>)),
                    InFunction(Func(<<"b">>, <<>>))>>,
             VarsAll,
             <<definedError(<<"f">>, ""), definedError(<<"a">>, ""),
               definedError(<<"b">>, "")>>),
        Code991,
        <<Statement(Code991, Code991),
          Declarator(Code991, "x", 1, 1, "var x;"),
          Statement(Code991, "function a(){x=42;}"),
          Statement(Code991, "function b(){alert(x);}")>>,
        << <<"">>,
           <<"function f(){var x;function b(){alert(x);}}">>,
           <<"function f(){var x;function a(){x=42;}}">> >>)
(* var min = Math.min *)
Code1044 == "var min = Math.min"
T1044 ==
    WithSuggestions(
        Test(1044, <<Var(<<"m", "i", "n">>, <<InitW>>)>>, VarsAll,
             <<assignedError(<<"m", "i", "n">>, "")>>),
        Code1044,
        <<Declarator(Code1044, "min = Math.min", 1, 1, Code1044)>>,
        << <<"">> >>)
(* /*global a */ *)
Code854 == "/*global a */"
T854 ==
    WithSuggestions(
        Test(854, <<DeclaredGlobal(<<"a">>, <<>>)>>,
             DefaultConfig, <<definedError(<<"a">>, "")>>),
        Code854,
        <<GlobalComment(Code854, Code854, "a")>>,
        << <<>> >>)
(* /* global foobar, foo, bar */ foobar; *)
Code1748 == "\n/* global foobar, foo, bar */\nfoobar;"
Comment1748 == "/* global foobar, foo, bar */"
(* The same case, expecting foo to be reported where the comment starts. *)
T1748_ExpectsCommentStart ==
    WithLocations(
        WithSuggestions(
            Test(1748, <<DeclaredGlobal(<<"f", "o", "o", "b", "a", "r">>, <<Read>>),
                        DeclaredGlobal(<<"f", "o", "o">>, <<>>),
                        DeclaredGlobal(<<"b", "a", "r">>, <<>>)>>,
                 DefaultConfig,
                 <<definedError(<<"f", "o", "o">>, ""),
                   definedError(<<"b", "a", "r">>, "")>>),
            Code1748,
            <<GlobalComment(Code1748, Comment1748, "foobar"),
              GlobalComment(Code1748, Comment1748, "foo"),
              GlobalComment(Code1748, Comment1748, "bar")>>,
            << <<>>, <<>> >>),
        <<At(2, 1, 2, 4),
          At(2, 24, 2, 27)>>)
T1748 ==
    WithLocations(
        WithSuggestions(
            Test(1748, <<DeclaredGlobal(<<"f", "o", "o", "b", "a", "r">>, <<Read>>),
                        DeclaredGlobal(<<"f", "o", "o">>, <<>>),
                        DeclaredGlobal(<<"b", "a", "r">>, <<>>)>>,
                 DefaultConfig,
                 <<definedError(<<"f", "o", "o">>, ""),
                   definedError(<<"b", "a", "r">>, "")>>),
            Code1748,
            <<GlobalComment(Code1748, Comment1748, "foobar"),
              GlobalComment(Code1748, Comment1748, "foo"),
              GlobalComment(Code1748, Comment1748, "bar")>>,
            << <<>>, <<>> >>),
        <<At(2, 19, 2, 22),
          At(2, 24, 2, 27)>>)
(* /* global foobar, foo, bar */ over four lines; foobar; *)
Code1777 == "\n/* global foobar,\n   foo,\n   bar\n */\nfoobar;"
Comment1777 == "/* global foobar,\n   foo,\n   bar\n */"
T1777 ==
    WithLocations(
        WithSuggestions(
            Test(1777, <<DeclaredGlobal(<<"f", "o", "o", "b", "a", "r">>, <<Read>>),
                        DeclaredGlobal(<<"f", "o", "o">>, <<>>),
                        DeclaredGlobal(<<"b", "a", "r">>, <<>>)>>,
                 DefaultConfig,
                 <<definedError(<<"f", "o", "o">>, ""),
                   definedError(<<"b", "a", "r">>, "")>>),
            Code1777,
            <<GlobalComment(Code1777, Comment1777, "foobar"),
              GlobalComment(Code1777, Comment1777, "foo"),
              GlobalComment(Code1777, Comment1777, "bar")>>,
            << <<>>, <<>> >>),
        <<At(3, 4, 3, 7),
          At(4, 4, 4, 7)>>)
(* /* global global*/ *)
Code2018 == "/* global global*/"
T2018 ==
    WithLocations(
        WithSuggestions(
            Test(2018, <<DeclaredGlobal(<<"g", "l", "o", "b", "a", "l">>, <<>>)>>,
                 DefaultConfig, <<definedError(<<"g", "l", "o", "b", "a", "l">>, "")>>),
            Code2018,
            <<GlobalComment(Code2018, Code2018, "global")>>,
            << <<>> >>),
        <<At(1, 11, 1, 17)>>)
(* /*global foo:true*/ *)
Code2035 == "/*global foo:true*/"
T2035 ==
    WithLocations(
        WithSuggestions(
            Test(2035, <<DeclaredGlobal(<<"f", "o", "o">>, <<>>)>>,
                 DefaultConfig, <<definedError(<<"f", "o", "o">>, "")>>),
            Code2035,
            <<GlobalComment(Code2035, Code2035, "foo")>>,
            << <<>> >>),
        <<At(1, 10, 1, 13)>>)
(* /*global foo*/ with a carriage return before the name *)
Code2454 == "/*global\rfoo*/"
T2454 ==
    WithLocations(
        WithSuggestions(
            Test(2454, <<DeclaredGlobal(<<"f", "o", "o">>, <<>>)>>,
                 DefaultConfig, <<definedError(<<"f", "o", "o">>, "")>>),
            Code2454,
            <<GlobalComment(Code2454, Code2454, "foo")>>,
            << <<>> >>),
        <<At(2, 1, 2, 4)>>)
(* (function ([ a, b ], [ c ] ) { return b; })(); *)
Code2675 == "(function ([ a, b ], [ c ] ) { return b; })();"
T2675 ==
    WithSuggestions(
        Test(2675, <<ArrayElem(InPattern(Param(<<"a">>, 1, <<>>))),
                     ArrayElem(InPattern(Param(<<"b">>, 1, <<Read>>))),
                     ArrayElem(InPattern(Param(<<"c">>, 1, <<>>)))>>,
             DefaultConfig,
             <<definedError(<<"a">>, ""), definedError(<<"c">>, "")>>),
        Code2675,
        <<Element(Code2675, "[ a, b ]", "a", 1, 2,
                  Parameter(Code2675, "[ a, b ]", 1, 2)),
          Element(Code2675, "[ a, b ]", "b", 2, 2,
                  Parameter(Code2675, "[ a, b ]", 1, 2)),
          Element(Code2675, "[ c ]", "c", 1, 1,
                  Parameter(Code2675, "[ c ]", 2, 2))>>,
        << <<"(function ([ , b ], [ c ] ) { return b; })();">>,
           <<"(function ([ a, b ] ) { return b; })();">> >>)
(* const [a, b, c] = foo; alert(a + c); *)
Code3224 == "const [a, b, c] = foo; alert(a + c);"
Pattern3224 ==
    Declarator(Code3224, "[a, b, c] = foo", 1, 1, "const [a, b, c] = foo;")
(* The same case, expecting the element to go with its comma. *)
T3224_ExpectsShift ==
    WithSuggestions(
        Test(3224, <<ArrayElem(Var(<<"a">>, <<InitW, Read>>)),
                     ArrayElem(Var(<<"b">>, <<InitW>>)),
                     ArrayElem(Var(<<"c">>, <<InitW, Read>>))>>,
             DefaultConfig, <<assignedError(<<"b">>, "")>>),
        Code3224,
        <<Element(Code3224, "[a, b, c]", "a", 1, 3, Pattern3224),
          Element(Code3224, "[a, b, c]", "b", 2, 3, Pattern3224),
          Element(Code3224, "[a, b, c]", "c", 3, 3, Pattern3224)>>,
        << <<"const [a, c] = foo; alert(a + c);">> >>)
T3224 ==
    WithSuggestions(
        Test(3224, <<ArrayElem(Var(<<"a">>, <<InitW, Read>>)),
                     ArrayElem(Var(<<"b">>, <<InitW>>)),
                     ArrayElem(Var(<<"c">>, <<InitW, Read>>))>>,
             DefaultConfig, <<assignedError(<<"b">>, "")>>),
        Code3224,
        <<Element(Code3224, "[a, b, c]", "a", 1, 3, Pattern3224),
          Element(Code3224, "[a, b, c]", "b", 2, 3, Pattern3224),
          Element(Code3224, "[a, b, c]", "c", 3, 3, Pattern3224)>>,
        << <<"const [a, , c] = foo; alert(a + c);">> >>)
(* let a = foo, b = 'bar'; alert(b); *)
Code4155 == "let a = foo, b = 'bar'; alert(b);"
T4155 ==
    WithSuggestions(
        Test(4155, <<Var(<<"a">>, <<InitW>>), Var(<<"b">>, <<InitW, Read>>)>>,
             DefaultConfig, <<assignedError(<<"a">>, "")>>),
        Code4155,
        <<Declarator(Code4155, "a = foo", 1, 2, "let a = foo, b = 'bar';"),
          Declarator(Code4155, "b = 'bar'", 2, 2, "let a = foo, b = 'bar';")>>,
        << <<"let  b = 'bar'; alert(b);">> >>)
(* let a = foo, b = 'bar'; alert(a); *)
Code4168 == "let a = foo, b = 'bar'; alert(a);"
T4168 ==
    WithSuggestions(
        Test(4168, <<Var(<<"a">>, <<InitW, Read>>), Var(<<"b">>, <<InitW>>)>>,
             DefaultConfig, <<assignedError(<<"b">>, "")>>),
        Code4168,
        <<Declarator(Code4168, "a = foo", 1, 2, "let a = foo, b = 'bar';"),
          Declarator(Code4168, "b = 'bar'", 2, 2, "let a = foo, b = 'bar';")>>,
        << <<"let a = foo; alert(a);">> >>)

(* using resource = getResource(); *)
Code4636 == "using resource = getResource();"
(* The same case, expecting the report to carry no suggestion. *)
T4636_ExpectsNoSuggestion ==
    WithSuggestions(
        Test(4636, <<InModule(Using(Var(<<"r", "e", "s", "o", "u", "r", "c", "e">>,
                                        <<InitW>>)))>>,
             DefaultConfig,
             <<assignedError(<<"r", "e", "s", "o", "u", "r", "c", "e">>, "")>>),
        Code4636,
        <<CallInit(Declarator(Code4636, "resource = getResource()", 1, 1,
                              Code4636))>>,
        << <<>> >>)
T4636 ==
    WithSuggestions(
        Test(4636, <<InModule(Using(Var(<<"r", "e", "s", "o", "u", "r", "c", "e">>,
                                        <<InitW>>)))>>,
             DefaultConfig,
             <<assignedError(<<"r", "e", "s", "o", "u", "r", "c", "e">>, "")>>),
        Code4636,
        <<CallInit(Declarator(Code4636, "resource = getResource()", 1, 1,
                              Code4636))>>,
        << <<"">> >>)
(* await using resource = getResource(); *)
Code4651 == "await using resource = getResource();"
T4651 ==
    WithSuggestions(
        Test(4651, <<InModule(Using(Var(<<"r", "e", "s", "o", "u", "r", "c", "e">>,
                                        <<InitW>>)))>>,
             DefaultConfig,
             <<assignedError(<<"r", "e", "s", "o", "u", "r", "c", "e">>, "")>>),
        Code4651,
        <<CallInit(Declarator(Code4651, "resource = getResource()", 1, 1,
                              Code4651))>>,
        << <<"">> >>)

(* ---- invalid: where and in which order the problems are reported ---- *)

(* var a=10; a=20; *)
Code883 == "var a=10; a=20;"
(* The same case, expecting a suggestion that removes the declaration. *)
T883_ExpectsSuggestion ==
    WithSuggestions(
        Test(883, <<Placed(Var(<<"a">>, <<InitW, Placed(AssignW(1, Stmt),
                                                       Code883, "a=20")>>),
                           Code883, "a=10")>>,
             VarsAll, <<assignedError(<<"a">>, "")>>),
        Code883,
        <<Declarator(Code883, "a=10", 1, 1, "var a=10;")>>,
        << <<" a=20;">> >>)
T883 ==
    WithSuggestions(
        Test(883, <<Placed(Var(<<"a">>, <<InitW, Placed(AssignW(1, Stmt),
                                                       Code883, "a=20")>>),
                           Code883, "a=10")>>,
             VarsAll, <<assignedError(<<"a">>, "")>>),
        Code883,
        <<Declarator(Code883, "a=10", 1, 1, "var a=10;")>>,
        << <<>> >>)
(* (function(obj) { var name; for ( name in obj ) { i(); return; } })({}); *)
Code1587 == "(function(obj) { var name; for ( name in obj ) { i(); return; } })({});"
(* The same case, expecting the loop variable not to be reported. *)
T1587_ExpectsNothing ==
    WithLocations(
        WithSuggestions(
            Test(1587, <<Param(<<"o", "b", "j">>, 1, <<Read>>),
                         Placed(LocalVar(<<"n", "a", "m", "e">>,
                                         <<Placed(ForW("blockOther"),
                                                  Code1587, "name in")>>),
                                Code1587, "name;")>>,
                 DefaultConfig, <<>>),
            Code1587, <<>>, <<>>),
        <<>>)
T1587 ==
    WithLocations(
        WithSuggestions(
            Test(1587, <<Param(<<"o", "b", "j">>, 1, <<Read>>),
                         Placed(LocalVar(<<"n", "a", "m", "e">>,
                                         <<Placed(ForW("blockOther"),
                                                  Code1587, "name in")>>),
                                Code1587, "name;")>>,
                 DefaultConfig, <<assignedError(<<"n", "a", "m", "e">>, "")>>),
            Code1587, <<>>, << <<>> >>),
        <<LineColumn(1, 34)>>)
(* (function(obj) { var name; for ( name in obj ) { } })({}); *)
Code1602 == "(function(obj) { var name; for ( name in obj ) { } })({});"
T1602 ==
    WithLocations(
        WithSuggestions(
            Test(1602, <<Param(<<"o", "b", "j">>, 1, <<Read>>),
                         Placed(LocalVar(<<"n", "a", "m", "e">>,
                                         <<Placed(ForW("empty"),
                                                  Code1602, "name in")>>),
                                Code1602, "name;")>>,
                 DefaultConfig, <<assignedError(<<"n", "a", "m", "e">>, "")>>),
            Code1602, <<>>, << <<>> >>),
        <<LineColumn(1, 34)>>)
(* (function(obj) { for ( var name in obj ) { } })({}); *)
Code1617 == "(function(obj) { for ( var name in obj ) { } })({});"
T1617 ==
    WithLocations(
        WithSuggestions(
            Test(1617, <<Param(<<"o", "b", "j">>, 1, <<Read>>),
                         Placed(LocalVar(<<"n", "a", "m", "e">>,
                                         <<Placed(ForDeclW("empty"),
                                                  Code1617, "name in")>>),
                                Code1617, "name in")>>,
                 DefaultConfig, <<assignedError(<<"n", "a", "m", "e">>, "")>>),
            Code1617, <<>>, << <<>> >>),
        <<LineColumn(1, 28)>>)
(* (function(iter) { var name; for ( name of iter ) { i(); return; } })({}); *)
Code1666 == "(function(iter) { var name; for ( name of iter ) { i(); return; } })({});"
T1666 ==
    WithLocations(
        WithSuggestions(
            Test(1666, <<Param(<<"i", "t", "e", "r">>, 1, <<Read>>),
                         Placed(LocalVar(<<"n", "a", "m", "e">>,
                                         <<Placed(ForW("blockOther"),
                                                  Code1666, "name of")>>),
                                Code1666, "name;")>>,
                 DefaultConfig, <<assignedError(<<"n", "a", "m", "e">>, "")>>),
            Code1666, <<>>, << <<>> >>),
        <<LineColumn(1, 35)>>)
(* (function(iter) { var name; for ( name of iter ) { } })({}); *)
Code1682 == "(function(iter) { var name; for ( name of iter ) { } })({});"
T1682 ==
    WithLocations(
        WithSuggestions(
            Test(1682, <<Param(<<"i", "t", "e", "r">>, 1, <<Read>>),
                         Placed(LocalVar(<<"n", "a", "m", "e">>,
                                         <<Placed(ForW("empty"),
                                                  Code1682, "name of")>>),
                                Code1682, "name;")>>,
                 DefaultConfig, <<assignedError(<<"n", "a", "m", "e">>, "")>>),
            Code1682, <<>>, << <<>> >>),
        <<LineColumn(1, 35)>>)
(* let x = 0;\nx++, x = 0;\nx=3; *)
Code2513 == "let x = 0;\nx++, x = 0;\nx=3;"
T2513 ==
    WithLocations(
        WithSuggestions(
            Test(2513, <<Placed(Var(<<"x">>,
                                    <<InitW,
                                      Placed(UpdateRW(Ctx(<<"nonlast">>, TRUE)),
                                             Code2513, "x++"),
                                      PlacedIn(AssignW(1, Ctx(<<"last">>, TRUE)),
                                               Code2513, "x++", "x = 0"),
                                      Placed(AssignW(2, Stmt), Code2513, "x=3")>>),
                                Code2513, "x = 0")>>,
                 DefaultConfig, <<assignedError(<<"x">>, "")>>),
            Code2513, <<>>, << <<>> >>),
        <<LineColumn(3, 1)>>)
(* let a = 'a';\na = 10;\nfunction foo(){a = 11;a = () => {a = 13}} *)
Code2808 == "let a = 'a';\na = 10;\nfunction foo(){a = 11;a = () => {a = 13}}"
(* The same case, expecting the problem at the declaration. *)
T2808_ExpectsDeclaration ==
    WithLocations(
        WithSuggestions(
            Test(2808, <<Placed(Var(<<"a">>,
                                    <<InitW,
                                      Placed(AssignW(1, Stmt), Code2808, "a = 10"),
                                      Placed(Nested(AssignW(2, Stmt)),
                                             Code2808, "a = 11"),
                                      Placed(Nested(AssignW(3, Stmt)),
                                             Code2808, "a = () =>"),
                                      Placed(Nested(AssignW(4, Stmt)),
                                             Code2808, "a = 13")>>),
                                Code2808, "a = 'a'"),
                         Placed(Func(<<"f", "o", "o">>, <<>>), Code2808, "foo")>>,
                 DefaultConfig,
                 <<assignedError(<<"a">>, ""), definedError(<<"f", "o", "o">>, "")>>),
            Code2808,
            <<NoSite,
              Statement(Code2808, "function foo(){a = 11;a = () => {a = 13}}")>>,
            << <<>>, <<"let a = 'a';\na = 10;\n">> >>),
        <<LineColumn(1, 5), LineColumn(3, 10)>>)
T2808 ==
    WithLocations(
        WithSuggestions(
            Test(2808, <<Placed(Var(<<"a">>,
                                    <<InitW,
                                      Placed(AssignW(1, Stmt), Code2808, "a = 10"),
                                      Placed(Nested(AssignW(2, Stmt)),
                                             Code2808, "a = 11"),
                                      Placed(Nested(AssignW(3, Stmt)),
                                             Code2808, "a = () =>"),
                                      Placed(Nested(AssignW(4, Stmt)),
                                             Code2808, "a = 13")>>),
                                Code2808, "a = 'a'"),
                         Placed(Func(<<"f", "o", "o">>, <<>>), Code2808, "foo")>>,
                 DefaultConfig,
                 <<assignedError(<<"a">>, ""), definedError(<<"f", "o", "o">>, "")>>),
            Code2808,
            <<NoSite,
              Statement(Code2808, "function foo(){a = 11;a = () => {a = 13}}")>>,
            << <<>>, <<"let a = 'a';\na = 10;\n">> >>),
        <<LineColumn(2, 1), LineColumn(3, 10)>>)
(* let foo;\ninit();\nfoo = foo + 2;\nfunction init() {foo = 1;} *)
Code2826 == "let foo;\ninit();\nfoo = foo + 2;\nfunction init() {foo = 1;}"
T2826 ==
    WithLocations(
        WithSuggestions(
            Test(2826, <<Placed(Var(<<"f", "o", "o">>,
                                    <<Placed(AssignW(1, Stmt), Code2826, "foo = foo"),
                                      Placed(ReadIn(1), Code2826, "foo + 2"),
                                      Placed(Nested(AssignW(2, Stmt)),
                                             Code2826, "foo = 1")>>),
                                Code2826, "foo;"),
                         Placed(Func(<<"i", "n", "i", "t">>, <<Read>>),
                                Code2826, "init() {")>>,
                 DefaultConfig, <<assignedError(<<"f", "o", "o">>, "")>>),
            Code2826, <<>>, << <<>> >>),
        <<LineColumn(3, 1)>>)
(* let c = 'c';\nc = 10;\nfunction foo1() {c = 11; c = () => { c = 13 }} c = foo1 *)
Code2848 == "let c = 'c';\nc = 10;\nfunction foo1() {c = 11; c = () => { c = 13 }} c = foo1"
T2848 ==
    WithLocations(
        WithSuggestions(
            Test(2848, <<Placed(Var(<<"c">>,
                                    <<InitW,
                                      Placed(AssignW(1, Stmt), Code2848, "c = 10"),
                                      Placed(Nested(AssignW(2, Stmt)),
                                             Code2848, "c = 11"),
                                      Placed(Nested(AssignW(3, Stmt)),
                                             Code2848, "c = () =>"),
                                      Placed(Nested(AssignW(4, Stmt)),
                                             Code2848, "c = 13"),
                                      Placed(AssignW(5, Stmt), Code2848, "c = foo1")>>),
                                Code2848, "c = 'c'"),
                         Placed(Func(<<"f", "o", "o", "1">>, <<Read>>),
                                Code2848, "foo1")>>,
                 DefaultConfig, <<assignedError(<<"c">>, "")>>),
            Code2848, <<>>, << <<>> >>),
        <<LineColumn(3, 48)>>)
(* let a; a = foo; *)
Code4376 == "let a; a = foo;"
T4376 ==
    WithSuggestions(
        Test(4376, <<Placed(Var(<<"a">>, <<Placed(AssignW(1, Stmt),
                                                 Code4376, "a = foo")>>),
                            Code4376, "a;")>>,
             DefaultConfig, <<assignedError(<<"a">>, "")>>),
        Code4376,
        <<Declarator(Code4376, "a", 1, 1, "let a;")>>,
        << <<>> >>)
(* function foo(a = 1) {a = 2;} foo(); *)
Code4617 == "function foo(a = 1) {a = 2;} foo();"
T4617 ==
    WithSuggestions(
        Test(4617, <<Placed(Func(<<"f", "o", "o">>, <<Read>>), Code4617, "foo"),
                     Placed(Param(<<"a">>, 1,
                                  <<InitW, Placed(AssignW(1, Stmt),
                                                  Code4617, "a = 2")>>),
                            Code4617, "a = 1")>>,
             DefaultConfig, <<assignedError(<<"a">>, "")>>),
        Code4617,
        <<NoSite, Parameter(Code4617, "a = 1", 1, 1)>>,
        << <<>> >>)
(* function foo(a = 1, b) {a = 2;} foo(); *)
Code4622 == "function foo(a = 1, b) {a = 2;} foo();"
(* The same case, expecting the problems in the order the parameters are   *)
(* declared.                                                               *)
T4622_ExpectsDeclarationOrder ==
    WithSuggestions(
        Test(4622, <<Placed(Func(<<"f", "o", "o">>, <<Read>>), Code4622, "foo"),
                     Placed(Param(<<"a">>, 1,
                                  <<InitW, Placed(AssignW(1, Stmt),
                                                  Code4622, "a = 2")>>),
                            Code4622, "a = 1"),
                     Placed(Param(<<"b">>, 1, <<>>), Code4622, "b)")>>,
             DefaultConfig,
             <<assignedError(<<"a">>, ""), definedError(<<"b">>, "")>>),
        Code4622,
        <<NoSite, Parameter(Code4622, "a = 1", 1, 2),
          Parameter(Code4622, "b", 2, 2)>>,
        << <<>>, <<"function foo(a = 1) {a = 2;} foo();">> >>)
T4622 ==
    WithSuggestions(
        Test(4622, <<Placed(Func(<<"f", "o", "o">>, <<Read>>), Code4622, "foo"),
                     Placed(Param(<<"a">>, 1,
                                  <<InitW, Placed(AssignW(1, Stmt),
                                                  Code4622, "a = 2")>>),
                            Code4622, "a = 1"),
                     Placed(Param(<<"b">>, 1, <<>>), Code4622, "b)")>>,
             DefaultConfig,
             <<definedError(<<"b">>, ""), assignedError(<<"a">>, "")>>),
        Code4622,
        <<NoSite, Parameter(Code4622, "a = 1", 1, 2),
          Parameter(Code4622, "b", 2, 2)>>,
        << <<"function foo(a = 1) {a = 2;} foo();">>, <<>> >>)

InvalidCases == {T883, T1587, T1602, T1617, T1666, T1682, T2513, T2808, T2826, T2848,
                 T4376, T4617, T4622,
                 T794, T806, T870, T1018, T1109, T1122, T1230, T1242, T1280, T1326, T1417, T1526, T1544,
                 T1808, T1833, T1857, T1876, T1951,
                 T2173, T2195, T2200, T2207, T2249, T2262, T2263, T2264, T2265,
                 T2267, T2275, T2280, T2286, T2317, T2473, T2486, T2508, T2518, T2523, T2528,
                 T2533, T2538, T2558, T2570, T2607, T2642, T2697, T2710, T2725, T2741,
                 T2779, T2803, T2855, T2873, T2890, T2908, T2926, T2944,
                 T2964, T2978, T2992, T3005, T3021, T3038, T3055,
                 T3071, T3087, T3107, T3608, T4485,
                 T854, T901, T991, T1044, T1748, T1777, T2018, T2035, T2454, T2675, T3224, T4155, T4168, T4636, T4651}

TestCases == ValidCases \cup InvalidCases

(* Scope graphs beyond those of the test file: one binding of every kind   *)
(* with every short sequence of reference shapes, and one binding of every *)
(* kind under every combination of the options.                            *)

MaxRefs == 2
MaxSeqDepth == 1

RECURSIVE SeqsUpTo(_, _)
SeqsUpTo(S, n) ==
    IF n = 0 THEN {<<>>}
    ELSE LET shorter == SeqsUpTo(S, n - 1)
         IN  shorter \cup {Append(q, x) : q \in shorter, x \in S}

Ctxs == {Ctx(seq, stmt) : seq \in SeqsUpTo({"last", "nonlast"}, MaxSeqDepth),
                          stmt \in BOOLEAN}

RefShapes ==
    {InitW, Read, ReadNested, SelfCall, ReadIn(1), Storable(ReadIn(1)), ArrayW,
     LogicalRW(1, Stmt), InLoop(AssignW(1, Stmt)), Nested(AssignW(1, Stmt)),
     CompoundRW(1, Stmt), CompoundRW(1, Consumed),
     ForW("blockReturn"), ForW("empty"), ForW("blockOther")}
    \cup {AssignW(1, c) : c \in {Stmt, Consumed, Ctx(<<"last">>, FALSE),
                                  Ctx(<<"nonlast">>, FALSE)}}
    \cup {UpdateRW(c) : c \in Ctxs}

(* The references a binding of this kind can have: only a variable has an  *)
(* initializer, only a binding naming a function is referenced from inside *)
(* its own function, and a variable names a function through its          *)
(* initializer.                                                            *)
WellFormed(b) ==
    /\ \A k \in 1..Len(b.refs) :
          /\ b.refs[k].init => b.defType = "Variable"
          /\ b.refs[k].selfRef => b.fnDef
    /\ (b.defType = "Variable" /\ b.fnDef) =>
          \E k \in 1..Len(b.refs) : b.refs[k].init
    /\ b.restSibling => b.defType \in {"Variable", "Parameter", "CatchClause"}
    /\ b.hasStaticBlock => b.defType = "ClassName"

RefCases ==
    {Test(0, <<[t EXCEPT !.refs = refs]>>, [DefaultConfig EXCEPT !.args = "all"], <<>>) :
        t \in {Var(<<"a">>, <<>>), FnInit(Var(<<"a">>, <<>>)),
               Param(<<"a">>, 1, <<>>), Func(<<"a">>, <<>>)},
        refs \in SeqsUpTo(RefShapes, MaxRefs)}

PatternChoice == {NoPattern, P_underscore}

Configs ==
    {[DefaultConfig EXCEPT !.vars = v, !.args = a, !.caughtErrors = c,
                           !.varsIgnorePattern = vp, !.argsIgnorePattern = ap,
                           !.caughtErrorsIgnorePattern = cp,
                           !.destructuredArrayIgnorePattern = dp,
                           !.reportUsedIgnorePattern = r] :
        v \in {"all", "local"}, a \in {"all", "after-used", "none"},
        c \in {"all", "none"}, vp \in PatternChoice, ap \in PatternChoice,
        cp \in PatternChoice, dp \in PatternChoice, r \in BOOLEAN}

Kinds ==
    {Var(<<>>, <<>>), LocalVar(<<>>, <<>>), Param(<<>>, 1, <<>>),
     CatchParam(<<>>, <<>>), InFunction(Func(<<>>, <<>>)),
     InFunction(Class(<<>>, <<>>)),
     ArrayElem(LocalVar(<<>>, <<>>)), ArrayElem(InPattern(Param(<<>>, 1, <<>>))),
     ArrayElem(CatchParam(<<>>, <<>>)), InPattern(Param(<<>>, 1, <<>>)),
     ExportDecl(Var(<<>>, <<>>)), ExportedComment(Var(<<>>, <<>>))}

PolicyCases ==
    {Test(0, <<[t EXCEPT !.name = n, !.refs = refs]>>, config, <<>>) :
        t \in Kinds, n \in {<<"a">>, <<"_", "a">>},
        refs \in {<<>>, <<Read>>, <<InitW>>, <<InitW, Read>>, <<ArrayW>>,
                  <<ArrayW, ReadNested>>},
        config \in Configs}

(* One binding of every kind, a rest sibling or not, a class with a static *)
(* initialization block or not, under the options that exempt those.       *)
OptionCases ==
    {Test(0, <<[t EXCEPT !.restSibling = rs, !.hasStaticBlock = sb, !.refs = refs]>>,
          [DefaultConfig EXCEPT !.args = "all", !.ignoreRestSiblings = irs,
                                !.ignoreClassWithStaticInitBlock = ics,
                                !.varsIgnorePattern = vp], <<>>) :
        t \in {Var(<<"_", "a">>, <<>>), LocalVar(<<"a">>, <<>>),
               InPattern(Param(<<"a">>, 1, <<>>)), CatchParam(<<"a">>, <<>>),
               Class(<<"a">>, <<>>), InFunction(Class(<<"_", "a">>, <<>>))},
        rs \in BOOLEAN, sb \in BOOLEAN, irs \in BOOLEAN, ics \in BOOLEAN,
        vp \in PatternChoice,
        refs \in {<<>>, <<Read>>, <<InitW>>, <<InitW, ReadNested>>, <<PatternW>>,
                  <<PatternW, Read>>}}

(* Two parameters, of one function or of two, each one an element of the   *)
(* parameter list or a binding of a pattern in it, under every args option.*)
ParamCases ==
    {Test(0, <<[p1 EXCEPT !.refs = r1], [p2 EXCEPT !.fn = f2, !.refs = r2]>>,
          [DefaultConfig EXCEPT !.args = a], <<>>) :
        p1 \in {Param(<<"a">>, 1, <<>>), InPattern(Param(<<"a">>, 1, <<>>))},
        p2 \in {Param(<<"b">>, 1, <<>>), InPattern(Param(<<"b">>, 1, <<>>))},
        f2 \in {1, 2},
        r1 \in {<<>>, <<Read>>, <<UpdateRW(Stmt)>>},
        r2 \in {<<>>, <<Read>>, <<UpdateRW(Stmt)>>},
        a \in {"all", "after-used", "none"}}

(* Source texts with a list of slots: `var a=1, b, c=f();` with every      *)
(* subset of its declarators read afterwards, and `var [a, b, c] = x;`     *)
(* likewise, the separators written with and without blanks.               *)

MaxSlots == 3

SlotNames == <<"a", "b", "c", "d">>
SlotInits == <<"=1", "", "=f()", "=0">>
Separators == {",", ", ", " , "}

DeclaratorTexts == [k \in DOMAIN SlotNames |-> SlotNames[k] \o SlotInits[k]]

(* The first n texts joined by sep. *)
RECURSIVE ListText(_, _, _)
ListText(texts, sep, n) ==
    IF n = 0 THEN ""
    ELSE IF n = 1 THEN texts[1]
    ELSE ListText(texts, sep, n - 1) \o sep \o texts[n]

(* The range of slot k of the list that follows prefix. *)
SlotSpan(prefix, texts, sep, k) ==
    LET before == prefix \o ListText(texts, sep, k - 1)
                         \o (IF k > 1 THEN sep ELSE "")
    IN  Span(Len(before) + 1, Len(before) + Len(texts[k]))

(* ` g(a); g(c);` for the slots read afterwards. *)
RECURSIVE UsesText(_, _)
UsesText(used, n) ==
    IF n = 0 THEN ""
    ELSE UsesText(used, n - 1)
         \o (IF n \in used THEN " g(" \o SlotNames[n] \o ");" ELSE "")

SlotRefs(k, used, init) ==
    (IF init THEN <<InitW>> ELSE <<>>) \o (IF k \in used THEN <<Read>> ELSE <<>>)

DeclaratorCase(n, sep, used) ==
    LET decl == "var " \o ListText(DeclaratorTexts, sep, n) \o ";"
        stmt == Site("statement", Span(1, Len(decl)), 1, 1, NoSite)
    IN  WithSuggestions(
            Test(0, [k \in 1..n |-> Var(<<SlotNames[k]>>,
                                        SlotRefs(k, used, SlotInits[k] # ""))],
                 VarsAll, <<>>),
            decl \o UsesText(used, n),
            [k \in 1..n |->
                [Site("declarators", SlotSpan("var ", DeclaratorTexts, sep, k),
                      k, n, stmt) EXCEPT !.call = (SlotInits[k] = "=f()")]],
            <<>>)

ElementCase(n, sep, used) ==
    LET pattern == "[" \o ListText(SlotNames, sep, n) \o "] = x"
        decl == "var " \o pattern \o ";"
        stmt == Site("statement", Span(1, Len(decl)), 1, 1, NoSite)
        declarator == Site("declarators", Span(5, 4 + Len(pattern)), 1, 1, stmt)
    IN  WithSuggestions(
            Test(0, [k \in 1..n |-> ArrayElem(Var(<<SlotNames[k]>>,
                                                  SlotRefs(k, used, TRUE)))],
                 VarsAll, <<>>),
            decl \o UsesText(used, n),
            [k \in 1..n |->
                Site("elements", SlotSpan("var [", SlotNames, sep, k), k, n,
                     declarator)],
            <<>>)

(* /*global a, b*/ comments, each name read afterwards or not. *)
CommentTexts == {"/*global a, b*/", "/* globals a,b */", "/*global\na:true,\nb*/"}

CommentCase(comment, used, v) ==
    LET code == "\n" \o comment \o UsesText(used, 2)
    IN  WithSuggestions(
            Test(0, [k \in 1..2 |->
                        DeclaredGlobal(<<SlotNames[k]>>,
                                       IF k \in used THEN <<Read>> ELSE <<>>)],
                 [DefaultConfig EXCEPT !.vars = v], <<>>),
            code,
            [k \in 1..2 |-> GlobalComment(code, comment, SlotNames[k])],
            <<>>)

CommentCases ==
    {CommentCase(comment, used, v) :
        comment \in CommentTexts, used \in SUBSET (1..2), v \in {"all", "local"}}

(* Source texts with writes: `let a = 1;`, `let b;` and then up to         *)
(* MaxWrites statements, each one assigning to a or to b, at the top level *)
(* or inside a callback, the statements on one line or on a line each.     *)

MaxWrites == 2

WriteTargets == {[v |-> v, nested |-> n] : v \in 1..2, n \in BOOLEAN}

WriteText(w) ==
    IF w.nested THEN "g(() => {" \o SlotNames[w.v] \o " = 2});"
    ELSE SlotNames[w.v] \o " = 2;"

(* The text before write k: the two declarations and the earlier writes. *)
RECURSIVE WritesPrefix(_, _, _)
WritesPrefix(ws, sep, k) ==
    IF k = 0 THEN "let a = 1;" \o sep \o "let b;"
    ELSE WritesPrefix(ws, sep, k - 1) \o sep \o WriteText(ws[k])

(* Where the identifier assigned by write k starts. *)
WritePosition(ws, sep, k) ==
    Len(WritesPrefix(ws, sep, k - 1)) + Len(sep)
        + (IF ws[k].nested THEN 10 ELSE 1)

(* The references of variable v: the writes to it, in source order. *)
RECURSIVE WriteRefs(_, _, _, _)
WriteRefs(ws, sep, v, k) ==
    IF k = 0 THEN <<>>
    ELSE WriteRefs(ws, sep, v, k - 1)
         \o (IF ws[k].v # v THEN <<>>
             ELSE <<[AssignW(k, Stmt) EXCEPT !.otherScope = ws[k].nested,
                                            !.at = WritePosition(ws, sep, k)]>>)

WriteCase(ws, sep) ==
    LET declA == "let a = 1;"
        code == WritesPrefix(ws, sep, Len(ws))
        atB == Len(declA) + Len(sep) + 5
    IN  WithSuggestions(
            Test(0, <<[Var(<<"a">>, <<InitW>> \o WriteRefs(ws, sep, 1, Len(ws)))
                          EXCEPT !.at = 5],
                      [Var(<<"b">>, WriteRefs(ws, sep, 2, Len(ws)))
                          EXCEPT !.at = atB]>>,
                 VarsAll, <<>>),
            code,
            <<Site("declarators", Span(5, 9), 1, 1,
                   Site("statement", Span(1, Len(declA)), 1, 1, NoSite)),
              Site("declarators", Span(atB, atB), 1, 1,
                   Site("statement", Span(atB - 4, atB + 1), 1, 1, NoSite))>>,
            <<>>)

WriteCases ==
    {WriteCase(ws, sep) : ws \in SeqsUpTo(WriteTargets, MaxWrites),
                          sep \in {" ", "\n"}}

ListCases ==
    {DeclaratorCase(n, sep, used) :
        n \in 1..MaxSlots, sep \in Separators, used \in SUBSET (1..MaxSlots)}
    \cup {ElementCase(n, sep, used) :
        n \in 1..MaxSlots, sep \in Separators, used \in SUBSET (1..MaxSlots)}

GeneratedCases ==
    {[c EXCEPT !.test = FALSE] :
        c \in {g \in RefCases \cup PolicyCases : WellFormed(g.bindings[1])}
              \cup {g \in OptionCases : WellFormed(g.bindings[1])}
              \cup ParamCases \cup ListCases \cup CommentCases \cup WriteCases}

Cases == TestCases \cup GeneratedCases

----------------------------------------------------------------------------
(* The run of one case: the rule's Program:exit handler collects the       *)
(* unused bindings, reporting the used-but-ignored ones on the way, then   *)
(* reports every collected binding; the RuleTester then compares the       *)
(* messages with the expected errors.                                      *)

Range(s) == {s[k] : k \in DOMAIN s}

SeqToBag(s) == [x \in Range(s) |-> Cardinality({k \in DOMAIN s : s[k] = x})]

(* The site of binding i of the case. *)
SiteOf(c, i) == IF i \in DOMAIN c.sites THEN c.sites[i] ELSE NoSite

RECURSIVE UnusedSuggestions(_, _)
UnusedSuggestions(c, unused) ==
    IF unused = <<>> THEN <<>>
    ELSE <<getSuggestions(c.code, c.bindings[Head(unused)],
                          SiteOf(c, Head(unused)))>>
         \o UnusedSuggestions(c, Tail(unused))

RECURSIVE UnusedLocations(_, _)
UnusedLocations(c, unused) ==
    IF unused = <<>> THEN <<>>
    ELSE <<getReportLocation(c.code, c.bindings[Head(unused)],
                             SiteOf(c, Head(unused)))>>
         \o UnusedLocations(c, Tail(unused))

(* The messages paired with their suggestions. *)
Zip(msgs, sugg) == [k \in DOMAIN msgs |-> <<msgs[k], sugg[k]>>]

RECURSIVE UnusedReports(_, _, _)
UnusedReports(bindings, unused, config) ==
    IF unused = <<>> THEN <<>>
    ELSE <<UnusedReport(bindings[Head(unused)], config)>>
         \o UnusedReports(bindings, Tail(unused), config)

(* The linter's ordering of the problems of one run: by line, then by      *)
(* column.                                                                 *)
LocBefore(l1, l2) ==
    \/ l1.line < l2.line
    \/ l1.line = l2.line /\ l1.column < l2.column

(* The indices in order with k put after the last one not behind it. *)
RECURSIVE InsertByLocation(_, _, _)
InsertByLocation(order, k, locs) ==
    IF order = <<>> THEN <<k>>
    ELSE IF LocBefore(locs[k][1], locs[order[Len(order)]][1])
         THEN Append(InsertByLocation(SubSeq(order, 1, Len(order) - 1), k, locs),
                     order[Len(order)])
         ELSE Append(order, k)

RECURSIVE SortByLocation(_, _)
SortByLocation(ks, locs) ==
    IF ks = <<>> THEN <<>>
    ELSE InsertByLocation(SortByLocation(SubSeq(ks, 1, Len(ks) - 1), locs),
                          ks[Len(ks)], locs)

(* The indices from k on that have a location, ascending. *)
RECURSIVE LocatedFrom(_, _)
LocatedFrom(k, locs) ==
    IF k > Len(locs) THEN <<>>
    ELSE (IF locs[k] # <<>> THEN <<k>> ELSE <<>>) \o LocatedFrom(k + 1, locs)

(* For each place of the sorted list, the index of the problem standing    *)
(* there: the problems with a location sorted among themselves, one        *)
(* without (the case gives it no position) left where it is.               *)
sortedOrder(locs) ==
    LET sorted == SortByLocation(LocatedFrom(1, locs), locs)
    IN  [k \in DOMAIN locs |->
            IF locs[k] = <<>> THEN k
            ELSE sorted[Cardinality({j \in 1..k : locs[j] # <<>>})]]

Permuted(s, order) == [k \in DOMAIN s |-> s[order[k]]]

(* What the expected error e lets the RuleTester see of location l: the    *)
(* properties the expected error has.                                      *)
Seen(l, e) ==
    IF l = <<>> \/ e = <<>> THEN <<>>
    ELSE <<[f \in DOMAIN e[1] |-> l[1][f]]>>

Init ==
    /\ case \in Cases
    /\ pc = "collect"
    /\ idx = 1
    /\ unusedVars = <<>>
    /\ reports = <<>>
    /\ suggestions = <<>>
    /\ locations = <<>>
    /\ asserted = "pending"
    /\ linebreak = Idle /\ around = Idle /\ emfile = Idle

(* One iteration of collectUnusedVariables' loop over the bindings. *)
Collect ==
    /\ pc = "collect"
    /\ idx <= Len(case.bindings)
    /\ LET o == CollectOutcome(case.bindings, idx, case.config) IN
         /\ unusedVars' = IF o.kind = "unused" THEN Append(unusedVars, idx)
                          ELSE unusedVars
         /\ reports' = IF o.kind = "usedIgnored"
                       THEN Append(reports, UsedIgnoredReport(case.bindings[idx],
                                                              case.config, o.cat))
                       ELSE reports
         /\ suggestions' = IF o.kind = "usedIgnored"
                           THEN Append(suggestions, <<>>)
                           ELSE suggestions
         /\ locations' = IF o.kind = "usedIgnored"
                         THEN Append(locations, <<>>)
                         ELSE locations
    /\ idx' = idx + 1
    /\ UNCHANGED <<case, pc, asserted, otherVars>>

(* The loop of Program:exit over the collected bindings. *)
Report ==
    /\ pc = "collect"
    /\ idx > Len(case.bindings)
    /\ LET r == reports \o UnusedReports(case.bindings, unusedVars, case.config)
           s == suggestions \o UnusedSuggestions(case, unusedVars)
           l == locations \o UnusedLocations(case, unusedVars)
           order == sortedOrder(l)
       IN  /\ reports' = Permuted(r, order)
           /\ suggestions' = Permuted(s, order)
           /\ locations' = Permuted(l, order)
    /\ pc' = "done"
    /\ UNCHANGED <<case, idx, unusedVars, asserted, otherVars>>

(* The RuleTester's comparison of the messages with the expected errors. *)
CheckErrors ==
    /\ pc = "done"
    /\ case.test
    /\ asserted = "pending"
    /\ asserted' =
          IF \A k \in DOMAIN locations : locations[k] # <<>>
          THEN (* every problem has its position: compared in order *)
               IF /\ reports = case.errors
                  /\ case.code # "" => suggestions = case.outputs
                  /\ case.locs # <<>> =>
                        /\ Len(case.locs) = Len(locations)
                        /\ \A k \in DOMAIN locations :
                              Seen(locations[k], case.locs[k]) = case.locs[k]
               THEN "pass" ELSE "fail"
          ELSE IF /\ SeqToBag(reports) = SeqToBag(case.errors)
                  /\ case.code # "" =>
                        SeqToBag(Zip(reports, suggestions))
                            = SeqToBag(Zip(case.errors, case.outputs))
                  /\ case.locs # <<>> =>
                        SeqToBag(Zip(reports, locations))
                            = SeqToBag(Zip(case.errors, case.locs))
               THEN "pass" ELSE "fail"
    /\ UNCHANGED <<case, pc, idx, unusedVars, reports, suggestions, locations,
                   otherVars>>

Next == Collect \/ Report \/ CheckErrors

Spec == Init /\ [][Next]_vars

(* Every case of the test file passes. *)
TestsPass == asserted # "fail"

----------------------------------------------------------------------------
(* Vocabulary of the properties.                                           *)

Bindings == case.bindings

(* The message lists a property speaks about: the rule's reports and, for  *)
(* a case of the test file, the errors the test expects.                   *)
Outputs == IF case.test THEN {reports, case.errors} ELSE {reports}

(* msgs holds a message of this id about the name. *)
Says(msgs, name, id) ==
    \E k \in DOMAIN msgs : msgs[k].messageId = id /\ msgs[k].data.varName = name

(* msgs holds an unused-variable message about the name with this action. *)
SaysUnused(msgs, name, action) ==
    \E k \in DOMAIN msgs :
        /\ msgs[k].messageId = "unusedVar"
        /\ msgs[k].data.varName = name
        /\ msgs[k].data.action = action

(* msgs holds no message about the name. *)
Silent(msgs, name) == \A k \in DOMAIN msgs : msgs[k].data.varName # name

HasWrite(b) == \E k \in 1..Len(b.refs) : b.refs[k].write

(* The options switch the binding's category off altogether. *)
SwitchedOff(b) ==
    LET config == case.config
    IN  \/ b.scopeType = "global" /\ config.vars = "local"
        \/ b.defType = "CatchClause" /\ config.caughtErrors = "none"
        \/ b.defType = "Parameter" /\ (config.args = "none" \/ b.setter)
        \/ /\ b.defType = "ClassName" /\ b.hasStaticBlock
           /\ config.ignoreClassWithStaticInitBlock
        \/ b.defType = "Variable" /\ b.using /\ config.ignoreUsingDeclarations

(* The options keep the binding out of the unused check: its category is   *)
(* switched off, or it is a parameter before the last used one under       *)
(* args "after-used".                                                      *)
CategoryOff(i) ==
    LET b == Bindings[i]
        config == case.config
    IN  \/ SwitchedOff(b)
        \/ /\ b.defType = "Parameter" /\ config.args = "after-used" /\ b.directParam
           /\ \E j \in (i + 1)..Len(Bindings) :
                 /\ Bindings[j].defType = "Parameter" /\ Bindings[j].fn = b.fn
                 /\ (Bindings[j].refs # <<>> \/ Bindings[j].eslintUsed)

(* The ignore pattern of the binding's own category. *)
OwnPattern(b) ==
    IF b.defType = "CatchClause" THEN case.config.caughtErrorsIgnorePattern
    ELSE IF b.defType = "Parameter" THEN case.config.argsIgnorePattern
    ELSE case.config.varsIgnorePattern

(* The binding is a direct element of an array pattern, where it is        *)
(* declared or where it is assigned.                                       *)
InArrayPattern(b) == b.arrayElem \/ \E k \in 1..Len(b.refs) : b.refs[k].parent = "array"

(* The binding's name matches the array pattern or its category's pattern. *)
NameIgnored(b) ==
    \/ InArrayPattern(b) /\ Matches(case.config.destructuredArrayIgnorePattern, b.name)
    \/ Matches(OwnPattern(b), b.name)

(* The binding is exported, marked used, or a spared rest sibling. *)
Spared(b) ==
    \/ b.exportDecl \/ b.eslintExported \/ b.eslintUsed
    \/ b.restSibling /\ case.config.ignoreRestSiblings

(* The binding is checked: nothing exempts it from the unused check. *)
Checked(i) == ~CategoryOff(i) /\ ~NameIgnored(Bindings[i]) /\ ~Spared(Bindings[i])

Done == pc = "done"

(* The assignment of this binding whose right side the reference lies in.  *)
InsideOwnAssignment(b, k) ==
    \E j \in 1..Len(b.refs) :
        /\ b.refs[j].parent \in {"assign", "logical"}
        /\ b.refs[j].rhs \in b.refs[k].within

----------------------------------------------------------------------------
(* C1: a checked binding without any reference is reported as "defined":   *)
(* its verdict is unused-defined, the rule emits an unusedVar message with *)
(* action "defined" for it, and so does the test file where it has the     *)
(* case.                                                                   *)
C1_NeverReferencedIsDefined ==
    Done =>
        \A i \in DOMAIN Bindings :
            (Bindings[i].refs = <<>> /\ Checked(i)) =>
                /\ Verdict(Bindings[i]) = "unused-defined"
                /\ \A msgs \in Outputs :
                      /\ SaysUnused(msgs, Bindings[i].name, "defined")
                      /\ ~SaysUnused(msgs, Bindings[i].name, "assigned a value")

(* An unused parameter of the test file has been reported and the test's   *)
(* comparison has passed.                                                  *)
C1_Witness ==
    /\ case = T1018 /\ asserted = "pass"
    /\ SaysUnused(reports, <<"a">>, "defined")

----------------------------------------------------------------------------
(* C2 as stated: a checked binding whose only references are writes plus   *)
(* reads that occur inside an assignment or update to that same binding is *)
(* reported as "assigned a value".                                         *)

(* Every reference is a write, or a read inside the right side of an       *)
(* assignment to the binding.                                              *)
OnlyWritesAndReadsInOwnWrites(b) ==
    /\ b.refs # <<>>
    /\ \A k \in 1..Len(b.refs) :
          b.refs[k].write \/ (b.refs[k].read /\ InsideOwnAssignment(b, k))

C2_AsStated ==
    Done =>
        \A i \in DOMAIN Bindings :
            (OnlyWritesAndReadsInOwnWrites(Bindings[i]) /\ Checked(i)) =>
                /\ Verdict(Bindings[i]) = "unused-assigned"
                /\ \A msgs \in Outputs :
                      SaysUnused(msgs, Bindings[i].name, "assigned a value")

(* The read half of reference k serves only a write to the binding: it is  *)
(* the read of `a += ...` or `a++` whose value is discarded, or a read in  *)
(* the right side of a preceding `a = ...` whose value is discarded and    *)
(* which stands in the binding's own function scope and outside any loop,  *)
(* the read not lying in a function that can be stored and called later.   *)
ReadServesOwnWrite(b, k) ==
    LET ref == b.refs[k] IN
    \/ /\ ref.write /\ ref.parent \in {"assign", "update"}
       /\ isUnusedExpression(ref.ctx)
    \/ /\ ~ref.storable
       /\ \E j \in 1..(k - 1) :
             /\ b.refs[j].parent \in {"assign", "logical"}
             /\ isUnusedExpression(b.refs[j].ctx)
             /\ ~b.refs[j].otherScope /\ ~b.refs[j].inLoop
             /\ \A m \in (j + 1)..k : b.refs[j].rhs \in b.refs[m].within

(* Every reference is a write that is not the variable of a for-in/for-of  *)
(* loop returning at once, its read half (if any) serving only the write,  *)
(* or a read serving only a write to the binding.                          *)
OnlySelfServingWrites(b) ==
    /\ b.refs # <<>>
    /\ \A k \in 1..Len(b.refs) :
          /\ b.refs[k].forBody \notin {"return", "blockReturn"}
          /\ b.refs[k].read => ReadServesOwnWrite(b, k)

(* C2, amended: a checked binding whose only references are writes (none   *)
(* the variable of a for-in/for-of loop whose body returns at once) plus   *)
(* reads that serve only a value-discarded, non-logical assignment or      *)
(* update of that same binding made in its own function scope outside any  *)
(* loop is reported as "assigned a value".                                 *)
C2_SelfServingWritesAreAssigned ==
    Done =>
        \A i \in DOMAIN Bindings :
            (OnlySelfServingWrites(Bindings[i]) /\ Checked(i)) =>
                /\ Verdict(Bindings[i]) = "unused-assigned"
                /\ \A msgs \in Outputs :
                      /\ SaysUnused(msgs, Bindings[i].name, "assigned a value")
                      /\ ~SaysUnused(msgs, Bindings[i].name, "defined")

(* `x = x.concat(x)` of the test file has been reported. *)
C2_Witness ==
    /\ case = T2803 /\ asserted = "pass"
    /\ OnlySelfServingWrites(Bindings[1])
    /\ SaysUnused(reports, <<"x">>, "assigned a value")

----------------------------------------------------------------------------
(* Reference k of the binding is a qualifying read: a read that is not the *)
(* read half of a write to the binding, does not lie in the right side of  *)
(* an assignment to the binding, and is not a recursive reference from the *)
(* binding's own function body.                                            *)
QualifyingRead(b, k) ==
    /\ b.refs[k].read /\ ~b.refs[k].write
    /\ ~b.refs[k].selfRef
    /\ ~InsideOwnAssignment(b, k)

(* C3: a binding with at least one qualifying read, a read from a nested   *)
(* function included, has the verdict used, and neither the rule nor the   *)
(* test file has an unused-variable message for it.                        *)
C3_QualifyingReadIsUsed ==
    Done =>
        \A i \in DOMAIN Bindings :
            (\E k \in 1..Len(Bindings[i].refs) : QualifyingRead(Bindings[i], k)) =>
                /\ Verdict(Bindings[i]) = "used"
                /\ \A msgs \in Outputs : ~Says(msgs, Bindings[i].name, "unusedVar")

(* A variable read only from a nested function has gone through the rule  *)
(* without a report, as the test file expects.                             *)
C3_Witness ==
    /\ case = T133 /\ asserted = "pass"
    /\ Bindings[1].refs[2].otherScope /\ QualifyingRead(Bindings[1], 2)
    /\ reports = <<>>

----------------------------------------------------------------------------
(* The binding is exported: an /*exported*/ comment names it, or an export *)
(* declaration of a module declares it.                                    *)
Exported(b) == b.eslintExported \/ isExported(b)

----------------------------------------------------------------------------
(* The binding is a function whose name is referenced only from inside its *)
(* own body (the initializer that assigns the function apart).             *)
OnlyRecursiveReferences(b) ==
    /\ b.fnDef
    /\ \E k \in 1..Len(b.refs) : b.refs[k].selfRef
    /\ \A k \in 1..Len(b.refs) : b.refs[k].init \/ b.refs[k].selfRef

(* The binding is a function with a read of its name outside its body.    *)
ReferencedOutsideBody(b) ==
    /\ b.fnDef
    /\ \E k \in 1..Len(b.refs) : QualifyingRead(b, k)

(* C5: a function referenced only from inside its own body is unused and,  *)
(* where checked, reported; with one read of its name outside its body it  *)
(* is used and not reported as unused.                                     *)
C5_RecursionIsNotUse ==
    Done =>
        \A i \in DOMAIN Bindings :
            /\ OnlyRecursiveReferences(Bindings[i]) =>
                  /\ Verdict(Bindings[i]) # "used"
                  /\ Checked(i) =>
                        \A msgs \in Outputs :
                            Says(msgs, Bindings[i].name, "unusedVar")
            /\ ReferencedOutsideBody(Bindings[i]) =>
                  /\ Verdict(Bindings[i]) = "used"
                  /\ \A msgs \in Outputs :
                        ~Says(msgs, Bindings[i].name, "unusedVar")

(* `function foox() { return foox(); }` has been reported. *)
C5_Witness ==
    /\ case = T794 /\ asserted = "pass"
    /\ OnlyRecursiveReferences(Bindings[1])
    /\ SaysUnused(reports, <<"f", "o", "o", "x">>, "defined")

----------------------------------------------------------------------------
(* Reference k is a pure read lying in the right side of the assignment j. *)
ReadsRhsOf(b, k, j) ==
    /\ b.refs[k].read /\ ~b.refs[k].write
    /\ b.refs[j].rhs \in b.refs[k].within

(* Reference k is a self-modifying write: `a++`, `a += ...`, or `a = ...`   *)
(* whose right side reads a.                                               *)
SelfModifyingAt(b, k) ==
    LET ref == b.refs[k] IN
    /\ ref.write /\ ~ref.init
    /\ \/ ref.parent = "update"
       \/ ref.parent = "assign" /\ ref.read
       \/ /\ ref.parent = "assign" /\ ~ref.read
          /\ k < Len(b.refs) /\ ReadsRhsOf(b, k + 1, k)

(* The value of an expression standing in ctx is consumed: the expression  *)
(* is no expression statement, and in every sequence expression around it  *)
(* up to the consumer it is the last element.                              *)
ValueConsumed(ctx) ==
    /\ ~ctx.stmt
    /\ \A n \in DOMAIN ctx.seq : ctx.seq[n] = "last"

(* Reference k is a self-modifying write whose value is discarded and      *)
(* which no later pass of a loop or call of a function can read.           *)
DiscardedSelfModification(b, k) ==
    /\ SelfModifyingAt(b, k)
    /\ ~ValueConsumed(b.refs[k].ctx)
    /\ ~b.refs[k].inLoop /\ ~b.refs[k].otherScope

(* Reference k is a read in the right side of a discarded assignment to    *)
(* the binding, not in a function that can be stored and called later.     *)
ReadOfDiscardedAssignment(b, k) ==
    /\ ~b.refs[k].storable
    /\ \E j \in 1..(k - 1) :
          /\ b.refs[j].parent = "assign"
          /\ DiscardedSelfModification(b, j)
          /\ \A m \in (j + 1)..k : ReadsRhsOf(b, m, j)

(* C6: a binding referenced only by its initializer and by self-modifying  *)
(* writes whose values are discarded (with the reads their right sides     *)
(* make) is unused and reported as assigned; a binding with a              *)
(* self-modifying write whose value is consumed by the enclosing           *)
(* expression is used and not reported as unused.                          *)
C6_SelfModifyingWrite ==
    Done =>
        \A i \in DOMAIN Bindings :
            LET b == Bindings[i] IN
            /\ ( /\ \E k \in 1..Len(b.refs) : SelfModifyingAt(b, k)
                 /\ \A k \in 1..Len(b.refs) :
                       \/ b.refs[k].init
                       \/ DiscardedSelfModification(b, k)
                       \/ ReadOfDiscardedAssignment(b, k) ) =>
                  /\ Verdict(b) = "unused-assigned"
                  /\ Checked(i) =>
                        \A msgs \in Outputs :
                            SaysUnused(msgs, b.name, "assigned a value")
            /\ ( \E k \in 1..Len(b.refs) :
                     SelfModifyingAt(b, k) /\ ValueConsumed(b.refs[k].ctx) ) =>
                  /\ Verdict(b) = "used"
                  /\ \A msgs \in Outputs : ~Says(msgs, b.name, "unusedVar")

(* `b = a++; foo(b)`: a, whose only reference besides its initializer is   *)
(* the increment, has gone through the rule without a report.              *)
C6_Witness ==
    /\ case = T571 /\ asserted = "pass"
    /\ SelfModifyingAt(Bindings[1], 2)
    /\ ValueConsumed(Bindings[1].refs[2].ctx)
    /\ Silent(reports, <<"a">>)

----------------------------------------------------------------------------
(* Reference k is a self-modifying write standing in a sequence            *)
(* expression, outside loops and nested functions, and the binding has no  *)
(* other reference than its initializer and the reads of that write's      *)
(* right side.                                                             *)
SoleSequenceWrite(b, k) ==
    /\ SelfModifyingAt(b, k)
    /\ b.refs[k].ctx.seq # <<>>
    /\ ~b.refs[k].inLoop /\ ~b.refs[k].otherScope
    /\ \A j \in 1..Len(b.refs) \ {k} :
          \/ b.refs[j].init
          \/ /\ j > k /\ b.refs[k].parent = "assign"
             /\ ReadsRhsOf(b, j, k) /\ ~b.refs[j].storable

(* C7: a self-modifying write in a sequence expression counts as a read    *)
(* exactly when it is the last element of a sequence whose value is        *)
(* consumed; otherwise the binding is reported as assigned but unused.     *)
C7_SequenceExpression ==
    Done =>
        \A i \in DOMAIN Bindings :
            \A k \in 1..Len(Bindings[i].refs) :
                SoleSequenceWrite(Bindings[i], k) =>
                    IF ValueConsumed(Bindings[i].refs[k].ctx)
                    THEN /\ Verdict(Bindings[i]) = "used"
                         /\ \A msgs \in Outputs :
                               ~Says(msgs, Bindings[i].name, "unusedVar")
                    ELSE /\ Verdict(Bindings[i]) = "unused-assigned"
                         /\ Checked(i) =>
                               \A msgs \in Outputs :
                                   SaysUnused(msgs, Bindings[i].name,
                                              "assigned a value")

(* `foo = ((0, x++), 0)`: the increment is the last element of a sequence  *)
(* that is itself not consumed, and x has been reported.                   *)
C7_Witness ==
    /\ case = T2538 /\ asserted = "pass"
    /\ SoleSequenceWrite(Bindings[1], 2)
    /\ Bindings[1].refs[2].ctx.seq = <<"last", "nonlast">>
    /\ SaysUnused(reports, <<"x">>, "assigned a value")

----------------------------------------------------------------------------
(* The array pattern's ignore pattern exempts the binding. *)
ArrayPatternMatch(b) ==
    InArrayPattern(b) /\ Matches(case.config.destructuredArrayIgnorePattern, b.name)

(* The binding is unused and nothing but an ignore pattern can keep it     *)
(* from being reported.                                                    *)
UnusedCandidate(i) ==
    /\ ~CategoryOff(i) /\ ~Spared(Bindings[i])
    /\ Verdict(Bindings[i]) # "used"

(* C8: an unused binding is exempted by the ignore pattern of its own      *)
(* category and by no other category's pattern: a catch binding by         *)
(* caughtErrorsIgnorePattern, a parameter by argsIgnorePattern, any other  *)
(* variable by varsIgnorePattern.  Matching its own pattern it is not      *)
(* reported; not matching it, it is reported whatever the other patterns   *)
(* are.                                                                    *)
C8_OwnCategoryPattern ==
    Done =>
        \A i \in DOMAIN Bindings :
            (UnusedCandidate(i) /\ ~ArrayPatternMatch(Bindings[i])) =>
                IF Matches(OwnPattern(Bindings[i]), Bindings[i].name)
                THEN \A msgs \in Outputs : Silent(msgs, Bindings[i].name)
                ELSE \A msgs \in Outputs :
                        Says(msgs, Bindings[i].name, "unusedVar")

(* `catch (err)` with varsIgnorePattern "^err": the pattern matches the    *)
(* name but is not the catch binding's own, and err has been reported.     *)
C8_Witness ==
    /\ case = T2195 /\ asserted = "pass"
    /\ Bindings[1].defType = "CatchClause"
    /\ Matches(case.config.varsIgnorePattern, Bindings[1].name)
    /\ SaysUnused(reports, Bindings[1].name, "defined")

----------------------------------------------------------------------------
(* Every usedIgnoredVar message of msgs about the name gives the array     *)
(* pattern's ignore pattern as the one that matched.                       *)
BlamesArrayPattern(msgs, name) ==
    \A k \in DOMAIN msgs :
        (msgs[k].messageId = "usedIgnoredVar" /\ msgs[k].data.varName = name) =>
            msgs[k].data.additional =
                ". Used elements of array destructuring must not match "
                \o PatternText(case.config.destructuredArrayIgnorePattern)

(* C9: a direct element of an array pattern whose name matches             *)
(* destructuredArrayIgnorePattern is exempted by it, and that pattern is   *)
(* the one tried first; a binding that is no direct element of an array    *)
(* pattern is not exempted by it; an array element whose name does not     *)
(* match it is exempted exactly by its own category's pattern.             *)
C9_ArrayPatternFirst ==
    Done =>
        \A i \in DOMAIN Bindings :
            LET b == Bindings[i] IN
            /\ ArrayPatternMatch(b) =>
                  \A msgs \in Outputs :
                      /\ ~Says(msgs, b.name, "unusedVar")
                      /\ BlamesArrayPattern(msgs, b.name)
            /\ ( /\ ~InArrayPattern(b) /\ UnusedCandidate(i)
                 /\ Matches(case.config.destructuredArrayIgnorePattern, b.name)
                 /\ ~Matches(OwnPattern(b), b.name) ) =>
                  \A msgs \in Outputs : Says(msgs, b.name, "unusedVar")
            /\ ( /\ InArrayPattern(b) /\ UnusedCandidate(i)
                 /\ ~Matches(case.config.destructuredArrayIgnorePattern, b.name) ) =>
                  \A msgs \in Outputs :
                      Says(msgs, b.name, "unusedVar")
                          <=> ~Matches(OwnPattern(b), b.name)

(* `const [ a, _b, c ] = items` with the pattern "^_": the unused element  *)
(* _b has not been reported.                                               *)
C9_Witness ==
    /\ case = T362 /\ asserted = "pass"
    /\ ArrayPatternMatch(Bindings[2]) /\ Verdict(Bindings[2]) # "used"
    /\ Silent(reports, Bindings[2].name)

----------------------------------------------------------------------------
----------------------------------------------------------------------------
(* The binding is unused and neither its category's options, nor an ignore *)
(* pattern, nor an export keeps it from being reported.                    *)
ReportableUnused(i) ==
    /\ ~CategoryOff(i) /\ ~NameIgnored(Bindings[i])
    /\ ~Bindings[i].exportDecl /\ ~Bindings[i].eslintExported
    /\ ~Bindings[i].eslintUsed
    /\ Verdict(Bindings[i]) # "used"

(* C11: with ignoreRestSiblings an unused property standing next to a rest *)
(* element in an object pattern is not reported, whether the pattern is a  *)
(* declaration, a parameter, a catch parameter or an assignment target;    *)
(* an unused binding that is no such sibling, the rest element included,   *)
(* is still reported; without ignoreRestSiblings the unused sibling is     *)
(* reported.                                                               *)
C11_RestSiblings ==
    Done =>
        \A i \in DOMAIN Bindings :
            ReportableUnused(i) =>
                IF Bindings[i].restSibling /\ case.config.ignoreRestSiblings
                THEN \A msgs \in Outputs : Silent(msgs, Bindings[i].name)
                ELSE \A msgs \in Outputs :
                        Says(msgs, Bindings[i].name, "unusedVar")

(* `const { type, ...coords } = data` with ignoreRestSiblings: the unused  *)
(* type has not been reported.                                             *)
C11_Witness ==
    /\ case = T558 /\ asserted = "pass"
    /\ case.config.ignoreRestSiblings
    /\ Bindings[2].restSibling /\ ReportableUnused(2)
    /\ Silent(reports, Bindings[2].name)

----------------------------------------------------------------------------
(* The binding is unused, and neither its scope, nor an ignore pattern,    *)
(* nor an export keeps it from being reported.                             *)
UnusedUnlessOption(b) ==
    /\ ~(b.scopeType = "global" /\ case.config.vars = "local")
    /\ ~NameIgnored(b)
    /\ ~b.exportDecl /\ ~b.eslintExported /\ ~b.eslintUsed
    /\ Verdict(b) # "used"

(* C12: with ignoreClassWithStaticInitBlock an unused class whose body has *)
(* a static initialization block is not reported; an unused class without  *)
(* such a block is reported, so is every unused class without the option,  *)
(* and so is every other unused binding whatever the option is.            *)
C12_ClassWithStaticInitBlock ==
    Done =>
        \A i \in DOMAIN Bindings :
            LET b == Bindings[i] IN
            /\ (b.defType = "ClassName" /\ UnusedUnlessOption(b)) =>
                  IF b.hasStaticBlock /\ case.config.ignoreClassWithStaticInitBlock
                  THEN \A msgs \in Outputs : Silent(msgs, b.name)
                  ELSE \A msgs \in Outputs : Says(msgs, b.name, "unusedVar")
            /\ ( /\ b.defType # "ClassName" /\ ReportableUnused(i)
                 /\ ~(b.restSibling /\ case.config.ignoreRestSiblings) ) =>
                  \A msgs \in Outputs : Says(msgs, b.name, "unusedVar")

(* `class Foo { static {} }` with the option: Foo has not been reported. *)
C12_Witness ==
    /\ case = T711 /\ asserted = "pass"
    /\ case.config.ignoreClassWithStaticInitBlock
    /\ Bindings[1].hasStaticBlock /\ UnusedUnlessOption(Bindings[1])
    /\ reports = <<>>

----------------------------------------------------------------------------
----------------------------------------------------------------------------
(* Some parameter after this one in the same parameter list is used. *)
LaterParamUsed(i) ==
    \E j \in (i + 1)..Len(Bindings) :
        /\ Bindings[j].defType = "Parameter" /\ Bindings[j].fn = Bindings[i].fn
        /\ Verdict(Bindings[j]) = "used"

(* Some parameter after this one in the same parameter list is referenced  *)
(* or marked as used.                                                      *)
LaterParamReferenced(i) ==
    \E j \in (i + 1)..Len(Bindings) :
        /\ Bindings[j].defType = "Parameter" /\ Bindings[j].fn = Bindings[i].fn
        /\ (Bindings[j].refs # <<>> \/ Bindings[j].eslintUsed)

(* The parameter is unused and neither a pattern, nor a rest sibling, nor  *)
(* its being a setter's parameter keeps it from being reported.            *)
UnusedParam(b) ==
    /\ b.defType = "Parameter" /\ ~b.setter
    /\ Verdict(b) # "used" /\ ~b.eslintUsed
    /\ ~NameIgnored(b)
    /\ ~(b.restSibling /\ case.config.ignoreRestSiblings)

----------------------------------------------------------------------------
(* C15: with vars "local" a binding of the global scope gets no message,   *)
(* while an unused binding of a nested scope is reported; with vars "all"  *)
(* an unused binding of the global scope is reported.                      *)
C15_VarsLocal ==
    Done =>
        \A i \in DOMAIN Bindings :
            LET b == Bindings[i]
                unused == /\ ReportableUnused(i)
                          /\ ~(b.restSibling /\ case.config.ignoreRestSiblings)
            IN  /\ (case.config.vars = "local" /\ b.scopeType = "global") =>
                      \A msgs \in Outputs : Silent(msgs, b.name)
                /\ (case.config.vars = "local" /\ b.scopeType # "global" /\ unused) =>
                      \A msgs \in Outputs : Says(msgs, b.name, "unusedVar")
                /\ (case.config.vars = "all" /\ b.scopeType = "global" /\ unused) =>
                      \A msgs \in Outputs : Says(msgs, b.name, "unusedVar")

(* `var a; function foo() { var _b; var c_; } foo();` with vars "local":   *)
(* the unused global a has not been reported, the unused local c_ has.     *)
C15_Witness ==
    /\ case = T1280 /\ asserted = "pass"
    /\ case.config.vars = "local"
    /\ Bindings[1].scopeType = "global" /\ Verdict(Bindings[1]) # "used"
    /\ Bindings[4].scopeType # "global"
    /\ Silent(reports, <<"a">>)
    /\ SaysUnused(reports, <<"c", "_">>, "defined")

----------------------------------------------------------------------------
(* Vocabulary of the properties about suggestions.                         *)

(* The messages with their suggestions a property speaks about: the rule's *)
(* and, for a case of the test file that gives them, the expected ones.    *)
Suggested ==
    {Zip(reports, suggestions)}
    \cup (IF case.test /\ case.code # ""
          THEN {Zip(case.errors, case.outputs)} ELSE {})

(* The outputs of the suggestions that pairs holds for the name. *)
OutputsFor(pairs, name) ==
    UNION {Range(pairs[k][2]) :
              k \in {j \in DOMAIN pairs : pairs[j][1].data.varName = name}}

(* pairs holds an unused-variable message about the name that carries no   *)
(* suggestion.                                                             *)
ReportedBare(pairs, name) ==
    \E k \in DOMAIN pairs :
        /\ pairs[k][1].messageId = "unusedVar"
        /\ pairs[k][1].data.varName = name
        /\ pairs[k][2] = <<>>

(* The messages of the pairs. *)
Messages(pairs) == [k \in DOMAIN pairs |-> pairs[k][1]]

Char(code, p) == SubSeq(code, p, p)

(* Only blanks stand at the positions s..e of code. *)
Blank(code, s, e) == \A p \in s..e : Char(code, p) = " "

(* out is code without the slot and the comma before it. *)
WithoutSlotAndCommaBefore(code, node, out) ==
    \E s \in 1..(node.start - 1) :
        /\ Char(code, s) = ","
        /\ Blank(code, s + 1, node.start - 1)
        /\ out = SubSeq(code, 1, s - 1) \o SubSeq(code, node.end + 1, Len(code))

(* out is code without the slot and the comma after it. *)
WithoutSlotAndCommaAfter(code, node, out) ==
    \E e \in (node.end + 1)..Len(code) :
        /\ Char(code, e) = ","
        /\ Blank(code, node.end + 1, e - 1)
        /\ out = SubSeq(code, 1, node.start - 1) \o SubSeq(code, e + 1, Len(code))

----------------------------------------------------------------------------
(* C16: the suggestion for one unused declarator among several of a        *)
(* variable declaration yields the text without that declarator and        *)
(* without one adjacent comma, the blanks between the two included: the    *)
(* comma before it when it is not the first declarator, the comma after it *)
(* when it is the first; everything else of the text stays as it is.       *)
C16_DeclaratorAndOneComma ==
    Done =>
        \A pairs \in Suggested : \A i \in DOMAIN Bindings :
            LET site == SiteOf(case, i) IN
            (site.list = "declarators" /\ site.count > 1) =>
                \A out \in OutputsFor(pairs, Bindings[i].name) :
                    IF site.index = 1
                    THEN WithoutSlotAndCommaAfter(case.code, site.node, out)
                    ELSE WithoutSlotAndCommaBefore(case.code, site.node, out)

(* `var a=10, b=0, c=null; alert(a+b)`: the suggestion for c has yielded   *)
(* `var a=10, b=0; alert(a+b)`.                                            *)
C16_Witness ==
    /\ case = T901 /\ asserted = "pass"
    /\ SiteOf(case, 3).list = "declarators" /\ SiteOf(case, 3).index = 3
    /\ SaysUnused(reports, <<"c">>, "assigned a value")
    /\ suggestions = << <<"var a=10, b=0; alert(a+b)">> >>

----------------------------------------------------------------------------
(* The number of commas in the text. *)
Commas(text) == Cardinality({p \in 1..Len(text) : Char(text, p) = ","})

(* out is code with the slot left empty. *)
WithHole(code, node, out) ==
    /\ out = SubSeq(code, 1, node.start - 1) \o SubSeq(code, node.end + 1, Len(code))
    /\ Commas(out) = Commas(code)

(* C17: in an array pattern of several elements, the suggestion for an     *)
(* unused element that another element follows yields the text with the   *)
(* element left out and its comma kept (a hole), so that the later         *)
(* elements keep their index; the suggestion for an unused last element    *)
(* yields the text without the element and the comma before it, one comma  *)
(* fewer and no hole.                                                      *)
C17_ArrayPatternHole ==
    Done =>
        \A pairs \in Suggested : \A i \in DOMAIN Bindings :
            LET site == SiteOf(case, i) IN
            (site.list = "elements" /\ site.count > 1) =>
                \A out \in OutputsFor(pairs, Bindings[i].name) :
                    IF site.index < site.count
                    THEN WithHole(case.code, site.node, out)
                    ELSE /\ WithoutSlotAndCommaBefore(case.code, site.node, out)
                         /\ Commas(out) = Commas(case.code) - 1

(* `const [a, _b, c] = array;`: the suggestion for a has left a hole       *)
(* (`[, _b, c]`), the suggestion for the last element c has not            *)
(* (`[a, _b]`).                                                            *)
C17_Witness ==
    /\ case = T1417 /\ asserted = "pass"
    /\ SiteOf(case, 2).list = "elements" /\ SiteOf(case, 2).index = 1
    /\ SiteOf(case, 4).index = SiteOf(case, 4).count
    /\ suggestions =
          << <<"const array = ['a', 'b', 'c', 'd', 'e']; const [, _b, c] = array;">>,
             <<"const array = ['a', 'b', 'c', 'd', 'e']; const [a, _b] = array;">> >>

----------------------------------------------------------------------------
(* The text out lacks at least the range node of code. *)
Deletes(code, node, out) ==
    \E s \in 1..node.start : \E e \in node.end..Len(code) :
        out = SubSeq(code, 1, s - 1) \o SubSeq(code, e + 1, Len(code))

----------------------------------------------------------------------------
Overlap(r1, r2) == r1.start <= r2.end /\ r2.start <= r1.end

(* Binding i is declared at a described site and pairs holds a message     *)
(* about it with a suggestion.                                             *)
HasSuggestion(pairs, i) ==
    /\ SiteOf(case, i).list \notin {"none", "comment"}
    /\ OutputsFor(pairs, Bindings[i].name) # {}

(* The fixes for the unused bindings i and j would remove overlapping      *)
(* ranges.                                                                 *)
FixesOverlap(i, j) ==
    /\ i # j
    /\ i \in Range(unusedVars) /\ j \in Range(unusedVars)
    /\ SiteOf(case, i).list \notin {"none", "comment"}
    /\ SiteOf(case, j).list \notin {"none", "comment"}
    /\ ~hasWriteReference(Bindings[i]) /\ ~hasWriteReference(Bindings[j])
    /\ Overlap(removalRange(case.code, SiteOf(case, i)),
               removalRange(case.code, SiteOf(case, j)))

----------------------------------------------------------------------------
(* The messages with their locations a property speaks about: the rule's   *)
(* and, for a case of the test file that gives them, the expected ones.    *)
Located ==
    {Zip(reports, locations)}
    \cup (IF case.test /\ case.locs # <<>>
          THEN {Zip(case.errors, case.locs)} ELSE {})

(* The name as text. *)
RECURSIVE NameText(_)
NameText(name) == IF name = <<>> THEN "" ELSE Head(name) \o NameText(Tail(name))

(* The position of the text that stands at this line and column. *)
IndexFromLoc(code, line, column) ==
    CHOOSE p \in 1..(Len(code) + 1) :
        getLocFromIndex(code, p) = [line |-> line, column |-> column]

(* The location covers, inside the range of the comment, exactly the text  *)
(* of the name.                                                            *)
NameInComment(code, comment, name, loc) ==
    LET s == IndexFromLoc(code, loc.line, loc.column)
        e == IndexFromLoc(code, loc.endLine, loc.endColumn)
    IN  /\ comment.start < s /\ e <= comment.end
        /\ SubSeq(code, s, e - 1) = NameText(name)

----------------------------------------------------------------------------
(* The locations the rule gave the problems about the name. *)
ReportedAt(name) ==
    {locations[k][1] :
        k \in {j \in DOMAIN reports : /\ reports[j].messageId = "unusedVar"
                                      /\ reports[j].data.varName = name
                                      /\ locations[j] # <<>>}}

(* The place of the binding of this name in the scope graph, which is the  *)
(* order in which the rule visits the bindings.                            *)
VisitedAs(name) == {i \in DOMAIN Bindings : Bindings[i].name = name}

(* C21: the problems of one run come in the order of their locations (by   *)
(* line, then by column), whatever the order in which the rule visited and *)
(* reported the bindings: no problem stands before one that is located     *)
(* earlier, in the rule's results and in the errors a test expects.        *)
C21_SourceOrder ==
    \A msgs \in Outputs :
        \A i, j \in DOMAIN msgs :
            i < j =>
                \A li \in ReportedAt(msgs[i].data.varName),
                   lj \in ReportedAt(msgs[j].data.varName) : ~LocBefore(lj, li)

(* function foo(a = 1, b) {a = 2;} foo(); passes: b, declared second, is   *)
(* reported first, a being reported at its later write.                    *)
C21_Witness ==
    /\ case.test /\ asserted = "pass"
    /\ \E i, j \in DOMAIN reports :
          /\ i < j
          /\ \E li \in ReportedAt(reports[i].data.varName),
                lj \in ReportedAt(reports[j].data.varName) : LocBefore(li, lj)
          /\ \E p \in VisitedAs(reports[i].data.varName),
                q \in VisitedAs(reports[j].data.varName) : q < p
          /\ reports[j].data.action = "assigned a value"

----------------------------------------------------------------------------
(* The characters an identifier is made of. *)
IdentifierChars ==
    {"a", "b", "c", "d", "e", "f", "g", "h", "i", "j", "k", "l", "m", "n", "o",
     "p", "q", "r", "s", "t", "u", "v", "w", "x", "y", "z",
     "A", "B", "C", "D", "E", "F", "G", "H", "I", "J", "K", "L", "M", "N", "O",
     "P", "Q", "R", "S", "T", "U", "V", "W", "X", "Y", "Z",
     "0", "1", "2", "3", "4", "5", "6", "7", "8", "9", "_", "$"}

(* The word stands in the text as an identifier of its own (not as a part  *)
(* of a longer one, not as the text of a string literal).                  *)
OccursAsWord(text, word) ==
    \E p \in 1..(Len(text) - Len(word) + 1) :
        /\ SubSeq(text, p, p + Len(word) - 1) = word
        /\ p > 1 => Char(text, p - 1) \notin IdentifierChars \cup {"'", "\""}
        /\ p + Len(word) <= Len(text) =>
              Char(text, p + Len(word)) \notin IdentifierChars

(* The binding is written somewhere outside its declaration. *)
WrittenOutsideDeclaration(b) ==
    \E k \in DOMAIN b.refs : b.refs[k].write /\ ~b.refs[k].init

(* Every reference to the binding belongs to its declaration: it is the    *)
(* initialisation or lies inside the function the binding names.           *)
OnlyDeclarationReferences(b) ==
    \A k \in DOMAIN b.refs : b.refs[k].init \/ (b.fnDef /\ b.refs[k].selfRef)

(* C22: a suggested fix, applied to the unmodified text, leaves no         *)
(* reference to the binding it removes: a binding written outside its      *)
(* declaration gets no suggestion, a binding that gets one has no          *)
(* reference outside its declaration and its name is gone from the output; *)
(* the fix is a function of the text: one output per problem, the same in  *)
(* the rule's results and in the errors a test expects.                    *)
C22_FixLeavesNoReference ==
    Done =>
        \A pairs \in Suggested : \A i \in DOMAIN Bindings :
            LET b == Bindings[i]
                outs == OutputsFor(pairs, b.name)
            IN  /\ WrittenOutsideDeclaration(b) => outs = {}
                /\ Cardinality(outs) <= 1
                /\ outs # {} =>
                      /\ OnlyDeclarationReferences(b)
                      /\ \A out \in outs : ~OccursAsWord(out, NameText(b.name))
                      /\ outs = OutputsFor(Zip(reports, suggestions), b.name)

(* function foo(a = 1, b) {a = 2;} foo(); passes: b gets a suggestion, a,  *)
(* written in the body, gets none.                                         *)
C22_Witness ==
    /\ case.test /\ asserted = "pass"
    /\ \E i, j \in DOMAIN Bindings :
          /\ WrittenOutsideDeclaration(Bindings[i])
          /\ ReportedBare(Zip(reports, suggestions), Bindings[i].name)
          /\ ~WrittenOutsideDeclaration(Bindings[j])
          /\ OutputsFor(Zip(reports, suggestions), Bindings[j].name) # {}

----------------------------------------------------------------------------
(* The writes to the binding made after its declaration from its own       *)
(* variable scope.                                                         *)
LaterOwnWrites(b) ==
    {k \in DOMAIN b.refs :
        b.refs[k].write /\ ~b.refs[k].init /\ ~b.refs[k].otherScope}

(* The reference of the set that comes last in the source. *)
LastOf(b, ks) == b.refs[CHOOSE k \in ks : \A j \in ks : j <= k]

(* The location starts where position p of the code is. *)
StartsAt(loc, code, p) ==
    /\ loc.line = getLocFromIndex(code, p).line
    /\ loc.column = getLocFromIndex(code, p).column

(* C23: an assigned-but-unused binding that is written after its           *)
(* declaration is reported at the last write made from its own variable    *)
(* scope: not at its declaration and not at a write made from a nested     *)
(* function, in the rule's results and in the locations a test expects.    *)
C23_LastOwnWrite ==
    Done =>
        \A pairs \in Located : \A k \in DOMAIN pairs : \A i \in DOMAIN Bindings :
            LET b == Bindings[i]
                msg == pairs[k][1]
            IN  (/\ msg.messageId = "unusedVar"
                 /\ msg.data.varName = b.name
                 /\ msg.data.action = "assigned a value"
                 /\ pairs[k][2] # <<>>
                 /\ b.at # 0
                 /\ LaterOwnWrites(b) # {}) =>
                    /\ StartsAt(pairs[k][2][1], case.code,
                                LastOf(b, LaterOwnWrites(b)).at)
                    /\ ~StartsAt(pairs[k][2][1], case.code, b.at)
                    /\ \A j \in DOMAIN b.refs :
                          b.refs[j].otherScope /\ b.refs[j].at # 0 =>
                              ~StartsAt(pairs[k][2][1], case.code, b.refs[j].at)

(* let a = 'a';\na = 10;\nfunction foo(){a = 11; ...} passes: a is         *)
(* reported at line 2, column 1, the write `a = 10`, although later writes *)
(* stand in foo.                                                           *)
C23_Witness ==
    /\ case.test /\ asserted = "pass" /\ case.locs # <<>>
    /\ \E i \in DOMAIN Bindings : \E k \in DOMAIN reports :
          LET b == Bindings[i] IN
          /\ reports[k].data.varName = b.name
          /\ reports[k].data.action = "assigned a value"
          /\ LaterOwnWrites(b) # {}
          /\ \E j \in DOMAIN b.refs :
                /\ b.refs[j].write /\ b.refs[j].otherScope
                /\ \A m \in LaterOwnWrites(b) : m < j
          /\ locations[k] # <<>>
          /\ case.locs[k] = LineColumn(2, 1)

----------------------------------------------------------------------------
(* The binding is referenced only as the variable of for-in/for-of heads. *)
OnlyLoopVariable(b) ==
    /\ b.refs # <<>>
    /\ \A k \in DOMAIN b.refs : b.refs[k].write /\ b.refs[k].forBody # "none"

(* The body of one of those loops is a return statement or a block whose   *)
(* first statement is one.                                                 *)
LoopReturnsAtOnce(b) ==
    \E k \in DOMAIN b.refs : b.refs[k].forBody \in {"return", "blockReturn"}

(* C24: a checked binding that is only written as the variable of a        *)
(* for-in/for-of loop counts as used, and is not reported, exactly when    *)
(* the loop body is a return statement or a block whose first statement is *)
(* a return; with an empty body or another first statement it is reported  *)
(* as "assigned a value".                                                  *)
C24_LoopVariable ==
    Done =>
        \A i \in DOMAIN Bindings :
            LET b == Bindings[i] IN
            (OnlyLoopVariable(b) /\ Checked(i)) =>
                \A msgs \in Outputs :
                    IF LoopReturnsAtOnce(b)
                    THEN Silent(msgs, b.name)
                    ELSE /\ SaysUnused(msgs, b.name, "assigned a value")
                         /\ ~SaysUnused(msgs, b.name, "defined")

(* for ( name in obj ) { i(); return; } passes with the loop variable      *)
(* reported, and a case of the test file whose loop returns at once passes *)
(* with nothing reported.                                                  *)
C24_Witness ==
    /\ case.test /\ asserted = "pass"
    /\ \E i \in DOMAIN Bindings :
          /\ OnlyLoopVariable(Bindings[i]) /\ Checked(i)
          /\ \E k \in DOMAIN Bindings[i].refs :
                Bindings[i].refs[k].forBody = "blockOther"
          /\ SaysUnused(reports, Bindings[i].name, "assigned a value")

C24_WitnessUsed ==
    /\ case.test /\ asserted = "pass"
    /\ \E i \in DOMAIN Bindings :
          /\ OnlyLoopVariable(Bindings[i]) /\ Checked(i)
          /\ LoopReturnsAtOnce(Bindings[i])
          /\ reports = <<>>

----------------------------------------------------------------------------
(***************************************************************************)
(* linebreak-style (src/unnamed/part_000).                                 *)
(*                                                                         *)
(* A source text is a sequence of characters; "LS" stands for the line     *)
(* separator U+2028.  Positions are counted from 0, as in the rule; the    *)
(* end of a range is the position after its last character.                *)
(***************************************************************************)

LF == <<"\n">>
CRLF == <<"\r", "\n">>

(* The characters that end a line. *)
LinebreakCharacters == {"\n", "\r", "LS"}

(* The characters of the generated source texts. *)
SourceCharacters == {"a"} \cup LinebreakCharacters

MaxSourceLength == 4

SourceTexts == SeqsUpTo(SourceCharacters, MaxSourceLength)

(* The text from position s up to, not including, position e. *)
slice(text, s, e) == SubSeq(text, s + 1, e)

(* No match. *)
null == [index |-> -1, text |-> <<>>]

(* astUtils.createGlobalLinebreakMatcher().exec(source) with the matcher's *)
(* lastIndex: the first linebreak from there on, CR LF taken as one.       *)
exec(source, lastIndex) ==
    LET hits == {p \in lastIndex..(Len(source) - 1) :
                    source[p + 1] \in LinebreakCharacters}
        p == CHOOSE h \in hits : \A q \in hits : h <= q
    IN  IF hits = {} THEN null
        ELSE IF source[p + 1] = "\r" /\ p + 2 <= Len(source)
                                     /\ source[p + 2] = "\n"
             THEN [index |-> p, text |-> CRLF]
             ELSE [index |-> p, text |-> <<source[p + 1]>>]

(* sourceCode.lines: the text split at its linebreaks. *)
RECURSIVE linesFrom(_, _)
linesFrom(source, from) ==
    LET match == exec(source, from)
    IN  IF match = null THEN <<slice(source, from, Len(source))>>
        ELSE <<slice(source, from, match.index)>>
             \o linesFrom(source, match.index + Len(match.text))

lines(source) == linesFrom(source, 0)

(* context.options[0] || "unix" *)
linebreakStyle(options) == IF options = <<>> THEN "unix" ELSE options[1]

expectedLF(options) == linebreakStyle(options) = "unix"

(* The same, the style being taken for "unix" whatever the option. *)
expectedLFChars_AlwaysLF(options) == LF
expectedLFChars(options) == IF expectedLF(options) THEN LF ELSE CRLF

(* The fix of createFix, covering only the first character of the range. *)
createFix_FirstCharacter(range, text) ==
    [range |-> <<range[1], range[1] + 1>>, text |-> text]
(* createFix: fixer.replaceTextRange(range, text). *)
createFix(range, text) == [range |-> range, text |-> text]

(* fixer.replaceTextRange applied to a text. *)
replaceTextRange(text, fix) ==
    slice(text, 0, fix.range[1]) \o fix.text \o slice(text, fix.range[2], Len(text))

(* All the fixes of one pass applied to its text, the last one first. *)
RECURSIVE applyFixes(_, _)
applyFixes(text, problems) ==
    IF problems = <<>> THEN text
    ELSE applyFixes(replaceTextRange(text, problems[Len(problems)].fix),
                    SubSeq(problems, 1, Len(problems) - 1))

(* The other programs, standing idle. *)
RuleIdle ==
    /\ case = Test(0, <<>>, DefaultConfig, <<>>)
    /\ pc = "idle" /\ idx = 1 /\ unusedVars = <<>> /\ reports = <<>>
    /\ suggestions = <<>> /\ locations = <<>> /\ asserted = "pending"

(* The rule is created for a text and an option (none, "unix" or           *)
(* "windows"); the Program handler starts with i = 0 and a fresh matcher.  *)
LinebreakInit ==
    /\ RuleIdle /\ around = Idle /\ emfile = Idle
    /\ \E text \in SourceTexts, options \in {<<>>, <<"unix">>, <<"windows">>} :
          linebreak = [pc |-> "exec", options |-> options, text |-> text,
                       source |-> text, lastIndex |-> 0, i |-> 0,
                       reports |-> <<>>, pass |-> 1, fixed |-> <<>>]

(* One turn of the loop of checkForLinebreakStyle: a linebreak is found;   *)
(* it is passed over when it is the expected one and reported otherwise.   *)
checkForLinebreakStyle ==
    /\ linebreak.pc = "exec"
    /\ LET source == linebreak.source
           match == exec(source, linebreak.lastIndex)
           i == linebreak.i + 1
           index == match.index
           range == <<index, index + Len(match.text)>>
           problem ==
               [loc |-> [start |-> [line |-> i,
                                    column |-> Len(lines(source)[i])],
                         end |-> [line |-> i + 1, column |-> 0]],
                messageId |-> IF expectedLF(linebreak.options)
                              THEN "expectedLF" ELSE "expectedCRLF",
                fix |-> createFix(range, expectedLFChars(linebreak.options))]
       IN  /\ match # null
           /\ linebreak' =
                 [linebreak EXCEPT
                     !.i = i,
                     !.lastIndex = index + Len(match.text),
                     !.reports = IF match.text = expectedLFChars(linebreak.options)
                                 THEN @ ELSE Append(@, problem)]
    /\ UNCHANGED <<ruleVars, around, emfile>>

(* The loop ends: the matcher finds nothing more. *)
LinebreakDone ==
    /\ linebreak.pc = "exec"
    /\ exec(linebreak.source, linebreak.lastIndex) = null
    /\ linebreak' = [linebreak EXCEPT !.pc = "done"]
    /\ UNCHANGED <<ruleVars, around, emfile>>

(* The fixes of the first pass are applied and the rule runs again on the  *)
(* fixed text.                                                             *)
LinebreakFix ==
    /\ linebreak.pc = "done" /\ linebreak.pass = 1
    /\ linebreak' =
          [linebreak EXCEPT
              !.pc = "exec", !.pass = 2, !.fixed = linebreak.reports,
              !.source = applyFixes(linebreak.source, linebreak.reports),
              !.lastIndex = 0, !.i = 0, !.reports = <<>>]
    /\ UNCHANGED <<ruleVars, around, emfile>>

LinebreakNext == checkForLinebreakStyle \/ LinebreakDone \/ LinebreakFix

LinebreakSpec == LinebreakInit /\ [][LinebreakNext]_vars

----------------------------------------------------------------------------
(* Vocabulary of the properties of linebreak-style.                        *)

(* Where the linebreaks of a text start: at a linebreak character that is  *)
(* not the LF of a CR LF pair.                                             *)
LinebreakStarts(text) ==
    {p \in 0..(Len(text) - 1) :
        /\ text[p + 1] \in LinebreakCharacters
        /\ ~(text[p + 1] = "\n" /\ p >= 1 /\ text[p] = "\r")}

(* The linebreak that starts at p. *)
LinebreakAt(text, p) ==
    IF text[p + 1] = "\r" /\ p + 2 <= Len(text) /\ text[p + 2] = "\n"
    THEN CRLF ELSE <<text[p + 1]>>

(* The k-th smallest element of a set of numbers. *)
Nth(S, k) == CHOOSE x \in S : Cardinality({y \in S : y < x}) = k - 1

(* The sequence the option asks for. *)
ExpectedSequence(options) == IF options = <<"windows">> THEN CRLF ELSE LF

(* The linebreaks the loop has met so far, by their ordinal numbers, and   *)
(* those among them that differ from the expected sequence.                *)
MetLinebreaks ==
    {k \in 1..Cardinality(LinebreakStarts(linebreak.source)) :
        Nth(LinebreakStarts(linebreak.source), k) < linebreak.lastIndex}

OffendingLinebreaks ==
    {k \in MetLinebreaks :
        LinebreakAt(linebreak.source, Nth(LinebreakStarts(linebreak.source), k))
            # ExpectedSequence(linebreak.options)}

(* The characters of a text that are no linebreak characters. *)
RECURSIVE OtherCharacters(_)
OtherCharacters(text) ==
    IF text = <<>> THEN <<>>
    ELSE (IF Head(text) \in LinebreakCharacters THEN <<>> ELSE <<Head(text)>>)
         \o OtherCharacters(Tail(text))

(* C25: linebreak-style reports one problem for each linebreak the matcher *)
(* finds that differs from the expected sequence (LF for "unix" or no      *)
(* option, CR LF for "windows") and none for one that equals it, in source *)
(* order; the message is expectedLF in unix mode and expectedCRLF in       *)
(* windows mode; the k-th linebreak of the text is reported from line k to *)
(* line k + 1, column 0.                                                   *)
C25_OnePerOffendingLinebreak ==
    linebreak.pc \in {"exec", "done"} =>
        /\ Len(linebreak.reports) = Cardinality(OffendingLinebreaks)
        /\ \A j \in DOMAIN linebreak.reports :
              LET k == Nth(OffendingLinebreaks, j)
                  problem == linebreak.reports[j]
              IN  /\ problem.loc.start.line = k
                  /\ problem.loc.end = [line |-> k + 1, column |-> 0]
                  /\ problem.messageId =
                        IF linebreak.options = <<"windows">>
                        THEN "expectedCRLF" ELSE "expectedLF"

(* A text in windows mode whose first linebreak is CR LF and passed over   *)
(* and whose second one is reported.                                       *)
C25_Witness ==
    /\ linebreak.pc = "done" /\ linebreak.pass = 1
    /\ linebreak.options = <<"windows">>
    /\ 1 \in MetLinebreaks /\ 1 \notin OffendingLinebreaks
    /\ Len(linebreak.reports) = 1
    /\ linebreak.reports[1].loc.start.line = 2
    /\ linebreak.reports[1].messageId = "expectedCRLF"

(* C26: the fix of a problem replaces exactly the range of the offending   *)
(* linebreak, from its index to its index plus its length, by the expected *)
(* sequence; the ranges of the fixes of one pass are pairwise disjoint;    *)
(* the fixed text differs from the original in its linebreaks only, and a  *)
(* second pass over it reports nothing.                                    *)
C26_FixReplacesLinebreak ==
    /\ linebreak.pc \in {"exec", "done"} =>
          \A j \in DOMAIN linebreak.reports :
              LET p == Nth(LinebreakStarts(linebreak.source),
                           Nth(OffendingLinebreaks, j))
                  fix == linebreak.reports[j].fix
              IN  /\ fix.range =
                        <<p, p + Len(LinebreakAt(linebreak.source, p))>>
                  /\ fix.text = ExpectedSequence(linebreak.options)
                  /\ \A m \in DOMAIN linebreak.reports :
                        m < j => linebreak.reports[m].fix.range[2] <= fix.range[1]
    /\ (linebreak.pc # "idle" /\ linebreak.pass = 2) =>
          /\ OtherCharacters(linebreak.source) = OtherCharacters(linebreak.text)
          /\ Cardinality(LinebreakStarts(linebreak.source))
                = Cardinality(LinebreakStarts(linebreak.text))
          /\ \A p \in LinebreakStarts(linebreak.source) :
                LinebreakAt(linebreak.source, p)
                    = ExpectedSequence(linebreak.options)
          /\ linebreak.reports = <<>>

(* A second pass has ended over a text in which a CR LF and another        *)
(* linebreak were fixed.                                                   *)
C26_Witness ==
    /\ linebreak.pc = "done" /\ linebreak.pass = 2
    /\ Len(linebreak.fixed) >= 2
    /\ \E j \in DOMAIN linebreak.fixed :
          linebreak.fixed[j].fix.range[2] = linebreak.fixed[j].fix.range[1] + 2
    /\ linebreak.source # linebreak.text
    /\ linebreak.reports = <<>>

----------------------------------------------------------------------------
(***************************************************************************)
(* lines-around-comment (src/unnamed/part_000).                            *)
(*                                                                         *)
(* A source file is given line by line; a line is the sequence of what     *)
(* stands on it: code, a line comment, a block comment, the first or the   *)
(* last line of a block comment of two lines, a hashbang.  From it come    *)
(* what the rule reads: sourceCode.lines, the tokens and comments with the *)
(* lines they start and end on, and the node around a comment.  Options    *)
(* are "undefined", "true" or "false".                                     *)
(***************************************************************************)

MaxLines == 3

LineShapes ==
    {<<>>, <<"code">>, <<"Line">>, <<"Block">>, <<"Ignored">>, <<"Custom">>,
     <<"code", "Line">>, <<"Block", "code">>, <<"Block", "Block">>,
     <<"Open">>, <<"Close">>, <<"Shebang">>}

(* The text of what stands on a line. *)
ItemText(item) ==
    CASE item = "code" -> "x;"
      [] item = "Line" -> "// text"
      [] item = "Custom" -> "// pragma"
      [] item = "Block" -> "/* text */"
      [] item = "Ignored" -> "/* eslint-disable */"
      [] item = "Open" -> "/* text"
      [] item = "Close" -> "text */"
      [] item = "Shebang" -> "#!/usr/bin/env node"

(* The text of a line: its items after one another, indented; blanks only  *)
(* when nothing stands on it.                                              *)
RECURSIVE LineText(_)
LineText(shape) ==
    IF shape = <<>> THEN "  "
    ELSE " " \o ItemText(Head(shape))
         \o (IF Tail(shape) = <<>> THEN "" ELSE LineText(Tail(shape)))

(* A block comment that opens on a line closes on the next one, and a      *)
(* hashbang stands on the first line only.                                 *)
WellFormedFile(shapes) ==
    \A n \in DOMAIN shapes :
        /\ shapes[n] = <<"Open">> => n < Len(shapes) /\ shapes[n + 1] = <<"Close">>
        /\ shapes[n] = <<"Close">> => n > 1 /\ shapes[n - 1] = <<"Open">>
        /\ shapes[n] = <<"Shebang">> => n = 1

Files == {shapes \in SeqsUpTo(LineShapes, MaxLines) :
             shapes # <<>> /\ WellFormedFile(shapes)}

(* The token or comment an item of line n is. *)
TokenOf(item, n) ==
    CASE item = "code" -> [type |-> "Identifier", value |-> "x", start |-> n, end |-> n]
      [] item = "Line" -> [type |-> "Line", value |-> " text", start |-> n, end |-> n]
      [] item = "Custom" -> [type |-> "Line", value |-> " pragma", start |-> n, end |-> n]
      [] item = "Block" -> [type |-> "Block", value |-> " text ", start |-> n, end |-> n]
      [] item = "Ignored" ->
            [type |-> "Block", value |-> " eslint-disable ", start |-> n, end |-> n]
      [] item = "Open" ->
            [type |-> "Block", value |-> " text\n text ", start |-> n, end |-> n + 1]
      [] item = "Shebang" ->
            [type |-> "Shebang", value |-> "/usr/bin/env node", start |-> n, end |-> n]

RECURSIVE TokensOfLine(_, _)
TokensOfLine(shape, n) ==
    IF shape = <<>> THEN <<>>
    ELSE (IF Head(shape) = "Close" THEN <<>> ELSE <<TokenOf(Head(shape), n)>>)
         \o TokensOfLine(Tail(shape), n)

(* The tokens and comments of the file, in source order. *)
RECURSIVE TokensFrom(_, _)
TokensFrom(shapes, n) ==
    IF n > Len(shapes) THEN <<>>
    ELSE TokensOfLine(shapes[n], n) \o TokensFrom(shapes, n + 1)

(* astUtils.isCommentToken *)
isCommentToken(token) == token.type \in {"Line", "Block", "Shebang"}

(* sourceCode.getAllComments(): the places of the comments among the       *)
(* tokens, in source order.                                                *)
RECURSIVE getAllComments(_, _)
getAllComments(tokens, k) ==
    IF k > Len(tokens) THEN <<>>
    ELSE (IF isCommentToken(tokens[k]) THEN <<k>> ELSE <<>>)
         \o getAllComments(tokens, k + 1)

(* String.prototype.trim, blanks being the only white space of a line. *)
RECURSIVE trim(_)
trim(text) ==
    IF text = "" THEN ""
    ELSE IF SubSeq(text, 1, 1) = " " THEN trim(SubSeq(text, 2, Len(text)))
    ELSE IF SubSeq(text, Len(text), Len(text)) = " "
         THEN trim(SubSeq(text, 1, Len(text) - 1))
    ELSE text

(* getEmptyLineNums: the numbers of the lines that are empty once trimmed. *)
getEmptyLineNums(fileLines) ==
    {n \in DOMAIN fileLines : trim(fileLines[n]) = ""}

(* getCommentLineNums: the lines on which a comment starts or ends. *)
getCommentLineNums(tokens, comments) ==
    {tokens[comments[c]].start : c \in DOMAIN comments}
        \cup {tokens[comments[c]].end : c \in DOMAIN comments}

(* numLines, counting only the lines of the file. *)
numLines_Length(fileLines) == Len(fileLines)
(* numLines = lines.length + 1 *)
numLines(fileLines) == Len(fileLines) + 1

(* astUtils.COMMENTS_IGNORE_PATTERN.test(value): the comment is a          *)
(* directive of ESLint or of a like tool.                                  *)
defaultIgnoreRegExpTest(value) ==
    \E word \in {"eslint", "jshint ", "jslint ", "istanbul ", "global ",
                 "globals ", "exported ", "jscs"} :
        /\ Len(word) <= Len(trim(value))
        /\ SubSeq(trim(value), 1, Len(word)) = word

(* new RegExp(ignorePattern, "u").test(value), the pattern being a plain   *)
(* word: the value holds it somewhere.                                     *)
customIgnoreRegExpTest(ignorePattern, value) ==
    IndexOf(value, ignorePattern, 1) # 0

(* A truthy option. *)
truthy(option) == option = "true"

(* astUtils.isTokenOnSameLine(left, right) *)
isTokenOnSameLine(left, right) == left.end = right.start

(* The nearest token before place k that is no comment (0: none). *)
RECURSIVE tokenBeforeSkippingComments(_, _)
tokenBeforeSkippingComments(tokens, k) ==
    IF k = 1 THEN 0
    ELSE IF isCommentToken(tokens[k - 1])
         THEN tokenBeforeSkippingComments(tokens, k - 1)
    ELSE k - 1

(* The nearest token after place k that is no comment (0: none). *)
RECURSIVE tokenAfterSkippingComments(_, _)
tokenAfterSkippingComments(tokens, k) ==
    IF k = Len(tokens) THEN 0
    ELSE IF isCommentToken(tokens[k + 1])
         THEN tokenAfterSkippingComments(tokens, k + 1)
    ELSE k + 1

(* codeAroundComment: code stands on the comment's line before or after it. *)
codeAroundComment(tokens, k) ==
    LET before == tokenBeforeSkippingComments(tokens, k)
        after == tokenAfterSkippingComments(tokens, k)
    IN  \/ before # 0 /\ isTokenOnSameLine(tokens[before], tokens[k])
        \/ after # 0 /\ isTokenOnSameLine(tokens[k], tokens[after])

(* No node. *)
NoNode == [type |-> "none", body |-> "none", consequent |-> "none",
           start |-> 0, end |-> 0, brace |-> 0]

(* A node of this type from line start to line end; body and consequent    *)
(* are the types of its body and of its consequent, brace is the line of   *)
(* the opening brace of a static block or of a switch statement.           *)
Node(type, body, consequent, start, end, brace) ==
    [type |-> type, body |-> body, consequent |-> consequent,
     start |-> start, end |-> end, brace |-> brace]

(* The nodes the generated files put around their comments. *)
NodesOver(start, end) ==
    {Node("ClassBody", "none", "none", start, end, 0),
     Node("ClassDeclaration", "ClassBody", "none", start, end, 0),
     Node("BlockStatement", "none", "none", start, end, 0),
     Node("IfStatement", "none", "BlockStatement", start, end, 0),
     Node("ObjectExpression", "none", "none", start, end, 0),
     Node("ArrayExpression", "none", "none", start, end, 0),
     Node("SwitchStatement", "none", "none", start, end, start),
     Node("SwitchCase", "none", "none", start, end, 0),
     Node("StaticBlock", "none", "none", start, end, start),
     Node("StaticBlock", "none", "none", start, end, end)}

(* isParentNodeType *)
isParentNodeType(parent, nodeType) ==
    \/ parent.type = nodeType
    \/ parent.body = nodeType
    \/ parent.consequent = nodeType

(* sourceCode.getNodeByRangeIndex(token.range[0]): the node of the file    *)
(* when the comment stands on the lines between its first and its last.    *)
getNodeByRangeIndex(node, token) ==
    IF node # NoNode /\ node.start < token.start /\ token.end < node.end
    THEN node ELSE NoNode

(* getParentNodeOfToken: a comment is in a static block only when it       *)
(* stands inside its braces.                                               *)
getParentNodeOfToken(node, token) ==
    LET found == getNodeByRangeIndex(node, token)
    IN  IF found # NoNode /\ found.type = "StaticBlock"
        THEN (IF token.start >= found.brace THEN found ELSE NoNode)
        ELSE found

(* isCommentAtParentStart *)
isCommentAtParentStart(node, token, nodeType) ==
    LET parent == getParentNodeOfToken(node, token)
        parentStartLine ==
            IF parent.type \in {"StaticBlock", "SwitchStatement"}
            THEN parent.brace ELSE parent.start
    IN  /\ parent # NoNode
        /\ isParentNodeType(parent, nodeType)
        /\ token.start - parentStartLine = 1

(* isCommentAtParentEnd *)
isCommentAtParentEnd(node, token, nodeType) ==
    LET parent == getParentNodeOfToken(node, token)
    IN  /\ parent # NoNode
        /\ isParentNodeType(parent, nodeType)
        /\ parent.end - token.end = 1

isCommentAtBlockStart(node, token) ==
    \E nodeType \in {"ClassBody", "BlockStatement", "StaticBlock", "SwitchCase",
                     "SwitchStatement"} :
        isCommentAtParentStart(node, token, nodeType)

isCommentAtBlockEnd(node, token) ==
    \E nodeType \in {"ClassBody", "BlockStatement", "StaticBlock", "SwitchCase",
                     "SwitchStatement"} :
        isCommentAtParentEnd(node, token, nodeType)

isCommentAtClassStart(node, token) == isCommentAtParentStart(node, token, "ClassBody")

isCommentAtClassEnd(node, token) == isCommentAtParentEnd(node, token, "ClassBody")

isCommentAtObjectStart(node, token) ==
    \E nodeType \in {"ObjectExpression", "ObjectPattern"} :
        isCommentAtParentStart(node, token, nodeType)

isCommentAtObjectEnd(node, token) ==
    \E nodeType \in {"ObjectExpression", "ObjectPattern"} :
        isCommentAtParentEnd(node, token, nodeType)

isCommentAtArrayStart(node, token) ==
    \E nodeType \in {"ArrayExpression", "ArrayPattern"} :
        isCommentAtParentStart(node, token, nodeType)

isCommentAtArrayEnd(node, token) ==
    \E nodeType \in {"ArrayExpression", "ArrayPattern"} :
        isCommentAtParentEnd(node, token, nodeType)

(* blockStartAllowed, whatever allowClassStart is. *)
blockStartAllowed_WhateverClassStart(options, node, token) ==
    truthy(options.allowBlockStart) /\ isCommentAtBlockStart(node, token)
blockStartAllowed(options, node, token) ==
    /\ truthy(options.allowBlockStart)
    /\ isCommentAtBlockStart(node, token)
    /\ ~(options.allowClassStart = "false" /\ isCommentAtClassStart(node, token))

blockEndAllowed(options, node, token) ==
    /\ truthy(options.allowBlockEnd)
    /\ isCommentAtBlockEnd(node, token)
    /\ ~(options.allowClassEnd = "false" /\ isCommentAtClassEnd(node, token))

exceptionStartAllowed(options, node, token) ==
    \/ blockStartAllowed(options, node, token)
    \/ truthy(options.allowClassStart) /\ isCommentAtClassStart(node, token)
    \/ truthy(options.allowObjectStart) /\ isCommentAtObjectStart(node, token)
    \/ truthy(options.allowArrayStart) /\ isCommentAtArrayStart(node, token)

exceptionEndAllowed(options, node, token) ==
    \/ blockEndAllowed(options, node, token)
    \/ truthy(options.allowClassEnd) /\ isCommentAtClassEnd(node, token)
    \/ truthy(options.allowObjectEnd) /\ isCommentAtObjectEnd(node, token)
    \/ truthy(options.allowArrayEnd) /\ isCommentAtArrayEnd(node, token)

(* checkForEmptyLine(token, opts) for the comment at place k: the problems *)
(* it reports, "before" first.                                             *)
checkForEmptyLine(file, options, k, opts) ==
    LET tokens == file.tokens
        token == tokens[k]
        commentAndEmptyLines ==
            getCommentLineNums(tokens, file.comments)
                \cup getEmptyLineNums(file.lines)
        prevLineNum == token.start - 1
        nextLineNum == token.end + 1
        before == truthy(opts.before) /\ ~(prevLineNum < 1)
        after == truthy(opts.after) /\ ~(nextLineNum >= numLines(file.lines))
        needsBefore ==
            /\ ~exceptionStartAllowed(options, file.node, token)
            /\ before
            /\ prevLineNum \notin commentAndEmptyLines
            /\ ~(/\ k > 1
                 /\ isCommentToken(tokens[k - 1])
                 /\ isTokenOnSameLine(tokens[k - 1], token))
        needsAfter ==
            /\ ~exceptionEndAllowed(options, file.node, token)
            /\ after
            /\ nextLineNum \notin commentAndEmptyLines
            /\ ~(/\ k < Len(tokens)
                 /\ isCommentToken(tokens[k + 1])
                 /\ isTokenOnSameLine(token, tokens[k + 1]))
    IN  IF /\ options.applyDefaultIgnorePatterns # "false"
           /\ defaultIgnoreRegExpTest(token.value)
        THEN <<>>
        ELSE IF /\ options.ignorePattern # "undefined"
                /\ customIgnoreRegExpTest(options.ignorePattern, token.value)
        THEN <<>>
        ELSE IF codeAroundComment(tokens, k) THEN <<>>
        ELSE (IF needsBefore
              THEN <<[node |-> k, messageId |-> "before",
                      fix |-> [insertTextBeforeRange |-> "lineStart", text |-> "\n"]]>>
              ELSE <<>>)
             \o (IF needsAfter
                 THEN <<[node |-> k, messageId |-> "after",
                         fix |-> [insertTextAfter |-> k, text |-> "\n"]]>>
                 ELSE <<>>)

(* The options of create(context), beforeBlockComment defaulting to true. *)
NoOptions ==
    [beforeBlockComment |-> "undefined", afterBlockComment |-> "undefined",
     beforeLineComment |-> "undefined", afterLineComment |-> "undefined",
     afterHashbangComment |-> "undefined",
     allowBlockStart |-> "undefined", allowBlockEnd |-> "undefined",
     allowClassStart |-> "undefined", allowClassEnd |-> "undefined",
     allowObjectStart |-> "undefined", allowObjectEnd |-> "undefined",
     allowArrayStart |-> "undefined", allowArrayEnd |-> "undefined",
     ignorePattern |-> "undefined", applyDefaultIgnorePatterns |-> "undefined"]

normalizedOptions(options) ==
    [options EXCEPT !.beforeBlockComment =
                        IF @ # "undefined" THEN @ ELSE "true"]

AllSides ==
    [NoOptions EXCEPT !.afterBlockComment = "true", !.beforeLineComment = "true",
                      !.afterLineComment = "true"]

(* Options for a file without a node around its comments: which sides are *)
(* checked, and what is ignored.                                           *)
SideOptions ==
    {[NoOptions EXCEPT !.beforeBlockComment = bb, !.afterBlockComment = ab] :
        bb \in {"undefined", "false"}, ab \in {"undefined", "true"}}
    \cup {AllSides,
          [NoOptions EXCEPT !.beforeLineComment = "true"],
          [NoOptions EXCEPT !.afterLineComment = "true"],
          [AllSides EXCEPT !.ignorePattern = "pragma"],
          [AllSides EXCEPT !.applyDefaultIgnorePatterns = "false"],
          [AllSides EXCEPT !.afterHashbangComment = "true"]}

(* Options for a file with a node: every side checked, under the           *)
(* exceptions for the start and for the end of a node.                     *)
ExceptionOptions ==
    {[AllSides EXCEPT !.allowBlockStart = b, !.allowClassStart = c] :
        b \in {"undefined", "true", "false"}, c \in {"undefined", "true", "false"}}
    \cup {[AllSides EXCEPT !.allowBlockEnd = b, !.allowClassEnd = c] :
        b \in {"undefined", "true"}, c \in {"undefined", "true", "false"}}
    \cup {[AllSides EXCEPT !.allowObjectStart = "true"],
          [AllSides EXCEPT !.allowObjectEnd = "true"],
          [AllSides EXCEPT !.allowArrayStart = "true"],
          [AllSides EXCEPT !.allowArrayEnd = "true"]}

(* What the rule reads of a file. *)
SourceFile(shapes, node) ==
    [lines |-> [n \in DOMAIN shapes |-> LineText(shapes[n])],
     tokens |-> TokensFrom(shapes, 1),
     comments |-> getAllComments(TokensFrom(shapes, 1), 1),
     node |-> node]

(* The lines of the file on which code stands alone: where a node can      *)
(* start and end.                                                          *)
NodesOf(shapes) ==
    UNION {NodesOver(s, e) :
              <<s, e>> \in {p \in (DOMAIN shapes) \X (DOMAIN shapes) :
                               /\ p[1] + 1 < p[2]
                               /\ shapes[p[1]] = <<"code">>
                               /\ shapes[p[2]] = <<"code">>}}

AroundInit ==
    /\ RuleIdle /\ linebreak = Idle /\ emfile = Idle
    /\ \E shapes \in Files :
          \/ \E options \in SideOptions :
                around = [pc |-> "forEach", file |-> SourceFile(shapes, NoNode),
                          options |-> normalizedOptions(options),
                          index |-> 1, reports |-> <<>>]
          \/ \E options \in ExceptionOptions, node \in NodesOf(shapes) :
                around = [pc |-> "forEach", file |-> SourceFile(shapes, node),
                          options |-> normalizedOptions(options),
                          index |-> 1, reports |-> <<>>]

(* One turn of comments.forEach in the Program handler. *)
Program ==
    /\ around.pc = "forEach"
    /\ around.index <= Len(around.file.comments)
    /\ LET options == around.options
           k == around.file.comments[around.index]
           token == around.file.tokens[k]
           found ==
               IF token.type = "Line"
               THEN IF truthy(options.beforeLineComment)
                       \/ truthy(options.afterLineComment)
                    THEN checkForEmptyLine(around.file, options, k,
                             [after |-> options.afterLineComment,
                              before |-> options.beforeLineComment])
                    ELSE <<>>
               ELSE IF token.type = "Block"
               THEN IF truthy(options.beforeBlockComment)
                       \/ truthy(options.afterBlockComment)
                    THEN checkForEmptyLine(around.file, options, k,
                             [after |-> options.afterBlockComment,
                              before |-> options.beforeBlockComment])
                    ELSE <<>>
               ELSE IF token.type = "Shebang" /\ truthy(options.afterHashbangComment)
               THEN checkForEmptyLine(around.file, options, k,
                        [after |-> options.afterHashbangComment,
                         before |-> "false"])
               ELSE <<>>
       IN  around' = [around EXCEPT !.index = @ + 1, !.reports = @ \o found]
    /\ UNCHANGED <<ruleVars, linebreak, emfile>>

(* The handler returns after the last comment. *)
ProgramDone ==
    /\ around.pc = "forEach"
    /\ around.index > Len(around.file.comments)
    /\ around' = [around EXCEPT !.pc = "done"]
    /\ UNCHANGED <<ruleVars, linebreak, emfile>>

AroundNext == Program \/ ProgramDone

AroundSpec == AroundInit /\ [][AroundNext]_vars


(***************************************************************************)
(* What the statements about lines-around-comment speak of.                *)
(***************************************************************************)

(* The comment at place c of the comments. *)
CommentAt(c) == around.file.tokens[around.file.comments[c]]

(* The comments the handler has gone through. *)
CheckedComments ==
    IF around.pc = "idle" THEN {}
    ELSE {c \in DOMAIN around.file.comments : c < around.index}

(* How many problems with this message are reported on the comment. *)
ReportsOn(c, messageId) ==
    Cardinality({r \in DOMAIN around.reports :
                    /\ around.reports[r].node = around.file.comments[c]
                    /\ around.reports[r].messageId = messageId})

(* Code stands on the line the comment starts on, before it, or on the     *)
(* line it ends on, after it.                                              *)
InlineComment(c) ==
    LET k == around.file.comments[c]
        tokens == around.file.tokens
    IN  \E t \in DOMAIN tokens :
            /\ tokens[t].type \notin {"Line", "Block", "Shebang"}
            /\ \/ t < k /\ tokens[t].end = tokens[k].start
               \/ t > k /\ tokens[t].start = tokens[k].end

(* The comment is left alone: a directive, unless the default patterns are *)
(* switched off, or a match of the ignorePattern option.                   *)
IgnoredComment(c) ==
    \/ /\ around.options.applyDefaultIgnorePatterns # "false"
       /\ defaultIgnoreRegExpTest(CommentAt(c).value)
    \/ /\ around.options.ignorePattern # "undefined"
       /\ customIgnoreRegExpTest(around.options.ignorePattern, CommentAt(c).value)

(* The option for this side of a comment of this type is on. *)
SideOn(c, side) ==
    LET type == CommentAt(c).type
    IN  CASE type = "Line" ->
                 IF side = "before" THEN around.options.beforeLineComment = "true"
                 ELSE around.options.afterLineComment = "true"
          [] type = "Block" ->
                 IF side = "before" THEN around.options.beforeBlockComment = "true"
                 ELSE around.options.afterBlockComment = "true"
          [] type = "Shebang" ->
                 side = "after" /\ around.options.afterHashbangComment = "true"

(* The line is empty, or lies within a comment. *)
EmptyOrCommentLine(n) ==
    \/ \A i \in 1..Len(around.file.lines[n]) :
          SubSeq(around.file.lines[n], i, i) = " "
    \/ \E d \in DOMAIN around.file.comments :
          CommentAt(d).start <= n /\ n <= CommentAt(d).end

(* Another comment stands on the comment's line on this side. *)
SharesLine(c, side) ==
    \E d \in DOMAIN around.file.comments :
        IF side = "before"
        THEN d < c /\ CommentAt(d).end = CommentAt(c).start
        ELSE d > c /\ CommentAt(d).start = CommentAt(c).end

(* A comment the options put under the check on this side, with no         *)
(* exception for the start or the end of a node.                           *)
Due(c, side) ==
    /\ ~InlineComment(c)
    /\ ~IgnoredComment(c)
    /\ SideOn(c, side)
    /\ IF side = "before"
       THEN ~exceptionStartAllowed(around.options, around.file.node, CommentAt(c))
       ELSE ~exceptionEndAllowed(around.options, around.file.node, CommentAt(c))

(* C27: whatever the options, no "before" is reported for a comment that   *)
(* starts on line 1 and no "after" for a comment that ends on the last     *)
(* line of the source; for every other comment that is not inline, not     *)
(* ignored, has the option for the side on and no start or end exception,  *)
(* exactly one problem is reported when the adjacent line is neither empty *)
(* nor a comment line and no other comment shares the comment's line on    *)
(* that side, and none otherwise.                                          *)
C27_NoReportAtFileEdges ==
    \A c \in CheckedComments :
        LET first == CommentAt(c).start = 1
            last == CommentAt(c).end = Len(around.file.lines)
        IN  /\ first => ReportsOn(c, "before") = 0
            /\ last => ReportsOn(c, "after") = 0
            /\ ~first /\ Due(c, "before") =>
                  ReportsOn(c, "before") =
                      IF /\ ~EmptyOrCommentLine(CommentAt(c).start - 1)
                         /\ ~SharesLine(c, "before")
                      THEN 1 ELSE 0
            /\ ~last /\ Due(c, "after") =>
                  ReportsOn(c, "after") =
                      IF /\ ~EmptyOrCommentLine(CommentAt(c).end + 1)
                         /\ ~SharesLine(c, "after")
                      THEN 1 ELSE 0

(* A comment on line 1 with code under it is reported "after" only, and a  *)
(* comment on the last line with code above it "before" only.              *)
C27_Witness ==
    /\ around.pc = "done"
    /\ \E c, d \in CheckedComments :
          /\ CommentAt(c).start = 1 /\ CommentAt(d).end = Len(around.file.lines)
          /\ Due(c, "before") /\ Due(c, "after")
          /\ Due(d, "before") /\ Due(d, "after")
          /\ ReportsOn(c, "before") = 0 /\ ReportsOn(c, "after") = 1
          /\ ReportsOn(d, "before") = 1 /\ ReportsOn(d, "after") = 0

(* The comment stands on the line right after the opening of a class body. *)
AtClassBodyOpening(c) ==
    /\ around.file.node.type = "ClassBody"
    /\ CommentAt(c).start = around.file.node.start + 1
    /\ CommentAt(c).end < around.file.node.end

(* C28: for a comment on the line right after the opening of a class body  *)
(* that would be reported "before", the report is suppressed if and only   *)
(* if allowClassStart is true, or allowBlockStart is true and              *)
(* allowClassStart is not explicitly false.                                *)
C28_ClassStartException ==
    \A c \in CheckedComments :
        /\ AtClassBodyOpening(c)
        /\ ~InlineComment(c) /\ ~IgnoredComment(c) /\ SideOn(c, "before")
        /\ ~SharesLine(c, "before")
        => (ReportsOn(c, "before") = 0
               <=> \/ around.options.allowClassStart = "true"
                   \/ /\ around.options.allowBlockStart = "true"
                      /\ around.options.allowClassStart # "false")

(* allowBlockStart: true with allowClassStart: false still reports the     *)
(* comment at the start of a class body.                                   *)
C28_Witness ==
    \E c \in CheckedComments :
        /\ AtClassBodyOpening(c)
        /\ around.options.allowBlockStart = "true"
        /\ around.options.allowClassStart = "false"
        /\ ReportsOn(c, "before") = 1

(* allowClassStart: true suppresses it even when allowBlockStart is false. *)
C28_WitnessClassStartAlone ==
    \E c \in CheckedComments :
        /\ AtClassBodyOpening(c)
        /\ ~InlineComment(c) /\ ~IgnoredComment(c)
        /\ around.options.allowBlockStart = "false"
        /\ around.options.allowClassStart = "true"
        /\ ReportsOn(c, "before") = 0

----------------------------------------------------------------------------
(***************************************************************************)
(* check-emfile-handling (src/tools/check-emfile-handling.js).             *)
(*                                                                         *)
(* The script runs as one Node.js process: the module's code first, then   *)
(* the file reads it started settle one by one in any order, then the      *)
(* callbacks of the promise chain run.  An exception that escapes the      *)
(* module's code ends the process at once.  fs.rmSync is taken to remove   *)
(* the directory; the other file system calls and the child processes      *)
(* succeed or throw.                                                       *)
(***************************************************************************)

OUTPUT_DIRECTORY == "tmp/emfile-check"

DEFAULT_FILE_COUNT == 15000

(* The limit of the file count on a Mac. *)
DarwinFileCountLimit == 100000

(* The reads the model follows one by one: the first ones in file order;   *)
(* when there are more files, the last one stands for all the others.      *)
MaxReads == 3

(* No error: the reason of a promise that is not rejected. *)
NoError == [code |-> "undefined", message |-> ""]

(* new Error("EMFILE error not encountered.") *)
NotEncountered == [code |-> "undefined", message |-> "EMFILE error not encountered."]

(* The error of a rejected readFile. *)
SystemError(code) == [code |-> code, message |-> code \o ": open failed"]

ReadErrorCodes == {"EMFILE", "ENFILE", "EACCES"}

Pending == [status |-> "pending", reason |-> NoError]

Fulfilled == [status |-> "fulfilled", reason |-> NoError]

Rejected(reason) == [status |-> "rejected", reason |-> reason]

DigitValue ==
    [d \in {"0", "1", "2", "3", "4", "5", "6", "7", "8", "9"} |->
        CASE d = "0" -> 0 [] d = "1" -> 1 [] d = "2" -> 2 [] d = "3" -> 3
          [] d = "4" -> 4 [] d = "5" -> 5 [] d = "6" -> 6 [] d = "7" -> 7
          [] d = "8" -> 8 [] d = "9" -> 9]

(* The number the leading digits of the text stand for, read from the left *)
(* with the value so far. *)
RECURSIVE parseDigits(_, _)
parseDigits(text, value) ==
    IF text = "" \/ SubSeq(text, 1, 1) \notin DOMAIN DigitValue THEN value
    ELSE parseDigits(SubSeq(text, 2, Len(text)),
                     10 * value + DigitValue[SubSeq(text, 1, 1)])

(* parseInt(limit, 10) of a trimmed text without sign: NaN when it does not *)
(* start with a digit.                                                      *)
parseInt(text) ==
    IF text = "" \/ SubSeq(text, 1, 1) \notin DOMAIN DigitValue
    THEN [isNaN |-> TRUE, value |-> 0]
    ELSE [isNaN |-> FALSE, value |-> parseDigits(text, 0)]

(* Math.min *)
min(a, b) == IF a < b THEN a ELSE b

(* What execSync("ulimit -n") gives: it throws, or prints the limit. *)
UlimitOutcomes ==
    {[throws |-> TRUE, output |-> ""]}
        \cup {[throws |-> FALSE, output |-> o] :
                 o \in {"unlimited", "0", "1", "1024", "200000"}}

(* The module's code before generateFiles: FILE_COUNT from the platform    *)
(* and from ulimit -n.                                                     *)
fileCount(platform, ulimit) ==
    IF platform = "win32" \/ ulimit.throws THEN DEFAULT_FILE_COUNT
    ELSE LET parsedLimit == parseInt(ulimit.output)
             counted == IF ~parsedLimit.isNaN THEN parsedLimit.value + 1
                        ELSE DEFAULT_FILE_COUNT
         IN  IF platform = "darwin" THEN min(counted, DarwinFileCountLimit)
             ELSE counted

(* results.find(({ status }) => status === "rejected"), from the end. *)
find_Last(results) ==
    LET rejected == {i \in DOMAIN results : results[i].status = "rejected"}
    IN  IF rejected = {} THEN Fulfilled
        ELSE results[CHOOSE i \in rejected : \A j \in rejected : j <= i]
(* results.find(({ status }) => status === "rejected"): the first rejected *)
(* result in the order of the files, Fulfilled standing for undefined.     *)
find(results) ==
    LET rejected == {i \in DOMAIN results : results[i].status = "rejected"}
    IN  IF rejected = {} THEN Fulfilled
        ELSE results[CHOOSE i \in rejected : \A j \in rejected : i <= j]

EmfileInit ==
    /\ RuleIdle /\ linebreak = Idle /\ around = Idle
    /\ \E platform \in {"win32", "linux", "darwin"}, ulimit \in UlimitOutcomes,
          directory \in {"absent", "stale"} :
          /\ platform = "win32" => ulimit.throws
          /\ emfile = [pc |-> "load", platform |-> platform, ulimit |-> ulimit,
                       FILE_COUNT |-> DEFAULT_FILE_COUNT, directory |-> directory,
                       steps |-> <<>>, reads |-> <<>>,
                       check |-> Pending, afterThen |-> Pending,
                       afterCatch |-> Pending, chain |-> Pending,
                       console |-> "", threw |-> "", exitCode |-> -1]

(* The module's code down to line 56. *)
detectFileLimit ==
    /\ emfile.pc = "load"
    /\ emfile' = [emfile EXCEPT !.pc = "generateFiles",
                                !.FILE_COUNT = fileCount(emfile.platform, emfile.ulimit)]
    /\ UNCHANGED <<ruleVars, linebreak, around>>

(* generateFiles(): the old directory is removed and the files are         *)
(* written, or mkdirSync or writeFileSync throws and the process ends.     *)
generateFiles ==
    /\ emfile.pc = "generateFiles"
    /\ \/ emfile' = [emfile EXCEPT !.pc = "runESLint", !.directory = "generated",
                                   !.steps = Append(@, "generate files")]
       \/ emfile' = [emfile EXCEPT !.pc = "exited", !.directory = "partial",
                                   !.steps = Append(@, "generate files"),
                                   !.threw = "generateFiles", !.exitCode = 1]
    /\ UNCHANGED <<ruleVars, linebreak, around>>

(* execSync(node bin/eslint.js ...): ESLint fixes the files, or the child  *)
(* process fails, execSync throws and the process ends.                    *)
runESLint ==
    /\ emfile.pc = "runESLint"
    /\ \/ emfile' = [emfile EXCEPT !.pc = "generateEmFileError",
                                   !.steps = Append(@, "run ESLint"),
                                   !.console = "No errors encountered running ESLint."]
       \/ emfile' = [emfile EXCEPT !.pc = "exited",
                                   !.steps = Append(@, "run ESLint"),
                                   !.threw = "execSync", !.exitCode = 1]
    /\ UNCHANGED <<ruleVars, linebreak, around>>

(* generateEmFileError() up to its await: a readFile is started for every  *)
(* file; the module's code ends with the chain's callbacks registered.     *)
generateEmFileError ==
    /\ emfile.pc = "generateEmFileError"
    /\ emfile' = [emfile EXCEPT !.pc = "reading",
                                !.steps = Append(@, "read all files"),
                                !.reads = [i \in 1..min(emfile.FILE_COUNT, MaxReads)
                                               |-> Pending]]
    /\ UNCHANGED <<ruleVars, linebreak, around>>

(* One readFile settles: the content, or an error of the system. *)
readFile ==
    /\ emfile.pc = "reading"
    /\ \E i \in DOMAIN emfile.reads :
          /\ emfile.reads[i] = Pending
          /\ \/ emfile' = [emfile EXCEPT !.reads[i] = Fulfilled]
             \/ \E code \in ReadErrorCodes :
                   emfile' = [emfile EXCEPT !.reads[i] = Rejected(SystemError(code))]
    /\ UNCHANGED <<ruleVars, linebreak, around>>

(* Promise.allSettled resolves and generateEmFileError goes on after its   *)
(* await: it throws the reason of the first rejected result.               *)
allSettled ==
    /\ emfile.pc = "reading"
    /\ \A i \in DOMAIN emfile.reads : emfile.reads[i] # Pending
    /\ LET failedResult == find(emfile.reads)
       IN  emfile' = [emfile EXCEPT
                         !.pc = "then",
                         !.check = IF failedResult.status = "rejected"
                                   THEN Rejected(failedResult.reason)
                                   ELSE Fulfilled]
    /\ UNCHANGED <<ruleVars, linebreak, around>>

(* .then(() => { throw new Error("EMFILE error not encountered."); }) *)
then ==
    /\ emfile.pc = "then"
    /\ emfile' = [emfile EXCEPT
                     !.pc = "catch",
                     !.afterThen = IF emfile.check.status = "fulfilled"
                                   THEN Rejected(NotEncountered)
                                   ELSE emfile.check]
    /\ UNCHANGED <<ruleVars, linebreak, around>>

(* .catch(error => ...) *)
catch ==
    /\ emfile.pc = "catch"
    /\ LET error == emfile.afterThen.reason
       IN  IF emfile.afterThen.status = "rejected"
           THEN IF error.code = "EMFILE"
                THEN emfile' = [emfile EXCEPT !.pc = "finally",
                                              !.afterCatch = Fulfilled,
                                              !.console = "EMFILE error encountered:"]
                ELSE IF error.code = "ENFILE"
                THEN emfile' = [emfile EXCEPT !.pc = "finally",
                                              !.afterCatch = Fulfilled,
                                              !.console = "ENFILE error encountered:"]
                ELSE emfile' = [emfile EXCEPT !.pc = "finally",
                                              !.afterCatch = Rejected(error),
                                              !.console = "Unexpected error encountered:"]
           ELSE emfile' = [emfile EXCEPT !.pc = "finally",
                                         !.afterCatch = emfile.afterThen]
    /\ UNCHANGED <<ruleVars, linebreak, around>>

(* .finally(() => fs.rmSync(OUTPUT_DIRECTORY, ...)), run after success     *)
(* only, as a second .then would be.                                       *)
finally_OnSuccessOnly ==
    /\ emfile.pc = "finally"
    /\ emfile' = [emfile EXCEPT
                     !.pc = "exit",
                     !.directory = IF emfile.afterCatch.status = "fulfilled"
                                   THEN "absent" ELSE @,
                     !.steps = IF emfile.afterCatch.status = "fulfilled"
                               THEN Append(@, "clean up") ELSE @,
                     !.chain = emfile.afterCatch]
    /\ UNCHANGED <<ruleVars, linebreak, around>>
(* .finally(() => fs.rmSync(OUTPUT_DIRECTORY, ...)): the directory is      *)
(* removed and the chain settles as the promise before it.                 *)
finally ==
    /\ emfile.pc = "finally"
    /\ emfile' = [emfile EXCEPT !.pc = "exit",
                                !.directory = "absent",
                                !.steps = Append(@, "clean up"),
                                !.chain = emfile.afterCatch]
    /\ UNCHANGED <<ruleVars, linebreak, around>>

(* Nothing is left to run: the process ends, with an error when the chain  *)
(* is rejected and nothing handles it.                                     *)
exit ==
    /\ emfile.pc = "exit"
    /\ emfile' = [emfile EXCEPT !.pc = "exited",
                                !.exitCode = IF emfile.chain.status = "rejected"
                                             THEN 1 ELSE 0]
    /\ UNCHANGED <<ruleVars, linebreak, around>>

EmfileNext ==
    \/ detectFileLimit
    \/ generateFiles
    \/ runESLint
    \/ generateEmFileError
    \/ readFile
    \/ allSettled
    \/ then
    \/ catch
    \/ finally
    \/ exit

EmfileSpec == EmfileInit /\ [][EmfileNext]_vars

(* Node.js runs the module's code to its end, every read it started        *)
(* settles, and every callback that is due is run.                         *)
EmfileFairSpec == EmfileSpec /\ WF_vars(EmfileNext)


(***************************************************************************)
(* What the statements about check-emfile-handling speak of.               *)
(***************************************************************************)

(* The steps of a run, in their order. *)
StepOrder == <<"generate files", "run ESLint", "read all files", "clean up">>

(* The steps taken so far. *)
StepsTaken == {emfile.steps[i] : i \in DOMAIN emfile.steps}

(* File generation and the ESLint child process have completed without     *)
(* throwing.                                                               *)
ESLintCompleted == emfile.pc = "generateEmFileError"

(* The EMFILE check, the promise of generateEmFileError(), has settled. *)
CheckSettled == emfile.check.status # "pending"

(* The output directory is gone. *)
DirectoryRemoved == emfile.directory = "absent"

C29_WitnessPassed ==
    /\ emfile.pc = "exited"
    /\ emfile.steps = StepOrder
    /\ emfile.chain.status = "fulfilled"
    /\ DirectoryRemoved

(* A run in which ESLint throws has ended with the directory left. *)
C29_WitnessESLintThrows ==
    /\ emfile.pc = "exited"
    /\ emfile.threw = "execSync"
    /\ emfile.directory = "generated"

(* The read of file i is the first rejected one, in the order of the files. *)
FirstRejectedRead(i) ==
    /\ emfile.reads[i].status = "rejected"
    /\ \A j \in 1..(i - 1) : emfile.reads[j].status = "fulfilled"

(* The code of the error is one of a file limit that was exceeded. *)
FileLimitCode(code) == code \in {"EMFILE", "ENFILE"}

C30_WitnessNotEncountered ==
    /\ emfile.pc = "exited"
    /\ emfile.exitCode = 1
    /\ emfile.reads # <<>>
    /\ \A i \in DOMAIN emfile.reads : emfile.reads[i].status = "fulfilled"
    /\ emfile.chain = Rejected(NotEncountered)

====
